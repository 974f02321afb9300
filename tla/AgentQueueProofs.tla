-------------------------- MODULE AgentQueueProofs --------------------------
(***************************************************************************)
(* Proofs about AgentQueue, for any number of keys, requests and workers,  *)
(* any batch size, attempt limit, lease and backoff; and about             *)
(* ActionExecution, whose events these workers run.                        *)
(***************************************************************************)
EXTENDS AgentQueue, FiniteSetTheorems, TLAPS

\* Most steps are first-order reasoning; those that are not name their prover.
USE Zenon

\* What every row satisfies whatever was done to it: the token of a lease is
\* the number of its claim, and attempts stop at the limit.
RowInv(r) ==
    /\ r \in EventRow
    /\ r.token <= r.attempts
    /\ r.status = "leased" => r.token = r.attempts /\ r.attempts > 0
    /\ r.status \in {"absent", "queued", "retrying"} => r.attempts < MaxAttempts
    /\ r.status = "absent" => r.attempts = 0
    /\ r.attempts <= MaxAttempts

\* The claims of a row that any worker remembers are claims that happened.
TokensBounded ==
    \A w \in Workers, k \in Keys : held[w][k] <= row[k].attempts

RunsOfClaims == \A k \in Keys : runs[k] \subseteq 1 .. row[k].attempts

\* The item a worker is busy with is one it holds, and what it is about to
\* write is what its handler ended with.
Busy(w) == stage[w] \in {"handling", "settling", "notifying"}

BusyInv ==
    \A w \in Workers :
        Busy(w) =>
            /\ item[w] \in Keys
            /\ held[w][item[w]] # 0
            /\ stage[w] # "handling" /\ outcome[w] # "retry" =>
                 <<held[w][item[w]], outcome[w]>> \in verdicts[item[w]]

\* A worker that is about to report a settled outcome settled the row with the
\* latest claim of it, and nobody has reported the row yet.
Silent(k) == notified[k] = [s \in Settled |-> 0]

ReportInv ==
    \A w \in Workers :
        stage[w] = "notifying" /\ Reported(w) \in Settled =>
            /\ row[item[w]].status = Reported(w)
            /\ row[item[w]].attempts = held[w][item[w]]
            /\ Silent(item[w])

\* Once reported, the latest claim is in nobody's hands any more.
ReportedInv ==
    \A k \in Keys : ~Silent(k) =>
        /\ row[k].status \in Settled
        /\ row[k].attempts # 0
        /\ \A w \in Workers : held[w][k] # row[k].attempts

IInv ==
    /\ TypeOK
    /\ \A k \in Keys : RowInv(row[k])
    /\ TokensBounded
    /\ UniqueHolder
    /\ RunsOfClaims
    /\ BusyInv
    /\ DoneByLatestClaim
    /\ DeadLetterJustified

----------------------------------------------------------------------------
\* What the row operations do, whatever the row.

LEMMA ReleasedFacts ==
    ASSUME NEW r \in EventRow, NEW s \in RowStatus
    PROVE  /\ Released(r, s) \in EventRow
           /\ Released(r, s).status = s
           /\ Released(r, s).attempts = r.attempts
           /\ Released(r, s).token = 0
BY DEF Released, EventRow

LEMMA ClaimedFacts ==
    ASSUME NEW r, RowInv(r), CanClaim(r)
    PROVE  /\ RowInv(Claimed(r))
           /\ Claimed(r).status = "leased"
           /\ Claimed(r).attempts = r.attempts + 1
           /\ Claimed(r).token = r.attempts + 1
           /\ r.status \notin Settled
<1>1. r \in EventRow
  BY DEF RowInv
<1>. r.attempts \in Nat /\ r.attempts + 1 \in Nat
  BY <1>1, SMT DEF EventRow
<1>2. /\ Claimed(r) \in EventRow
      /\ Claimed(r).status = "leased"
      /\ Claimed(r).attempts = r.attempts + 1
      /\ Claimed(r).token = r.attempts + 1
  BY <1>1, EventRowAssumption DEF Claimed, EventRow, RowStatus
<1>3. CASE Expired(r) /\ r.attempts >= MaxAttempts
  <2>1. Close(r) = Released(r, "dead_letter")
    BY <1>3 DEF Close, CloseExhausted
  <2>2. Close(r).status = "dead_letter"
    BY <1>1, <2>1, ReleasedFacts, SMT DEF RowStatus, Settled
  <2>. QED  BY <2>2 DEF CanClaim, Claimable, Expired
<1>4. CASE ~(Expired(r) /\ r.attempts >= MaxAttempts)
  <2>1. Claimable(r, FALSE)
    BY <1>4 DEF CanClaim, Close, CloseExhausted
  <2>2. r.attempts < MaxAttempts /\ r.status \notin Settled
    BY <2>1 DEF Claimable, RowInv, Expired, Settled
  <2>. QED  BY <1>1, <1>2, <2>2, EventRowAssumption, SMT DEF RowInv, EventRow
<1>. QED  BY <1>3, <1>4

LEMMA CloseFacts ==
    ASSUME NEW r, RowInv(r)
    PROVE  /\ RowInv(Close(r))
           /\ Close(r).attempts = r.attempts
           /\ Close(r).status # r.status =>
                /\ r.status = "leased"
                /\ Close(r).status = "dead_letter"
                /\ r.attempts >= MaxAttempts
<1>1. CASE Expired(r) /\ r.attempts >= MaxAttempts
  <2>1. Close(r) = Released(r, "dead_letter")
    BY <1>1 DEF Close, CloseExhausted
  <2>2. r \in EventRow /\ "dead_letter" \in RowStatus
    BY DEF RowInv, RowStatus, Settled
  <2>3. /\ Close(r) \in EventRow
        /\ Close(r).status = "dead_letter"
        /\ Close(r).attempts = r.attempts
        /\ Close(r).token = 0
    BY <2>1, <2>2, ReleasedFacts, SMT
  <2>4. r.attempts \in Nat /\ r.attempts <= MaxAttempts
    BY <2>2 DEF RowInv, EventRow
  <2>5. RowInv(Close(r))
    BY <2>3, <2>4, SMT DEF RowInv
  <2>. QED  BY <1>1, <2>3, <2>5 DEF Expired
<1>2. CASE ~(Expired(r) /\ r.attempts >= MaxAttempts)
  BY <1>2 DEF Close, CloseExhausted
<1>. QED  BY <1>1, <1>2

LEMMA RenewFacts ==
    ASSUME NEW r, NEW t, RowInv(r)
    PROVE  /\ RowInv(RenewLease(r, t))
           /\ RenewLease(r, t).status = r.status
           /\ RenewLease(r, t).attempts = r.attempts
<1>1. r \in EventRow
  BY DEF RowInv
<1>2. /\ RenewLease(r, t) \in EventRow
      /\ RenewLease(r, t).status = r.status
      /\ RenewLease(r, t).attempts = r.attempts
      /\ RenewLease(r, t).token = r.token
  BY <1>1, EventRowAssumption DEF RenewLease, EventRow
<1>. QED  BY <1>2 DEF RowInv

LEMMA ElapseFacts ==
    ASSUME NEW r, RowInv(r)
    PROVE  /\ RowInv(Elapse(r))
           /\ Elapse(r).status = r.status
           /\ Elapse(r).attempts = r.attempts
<1>1. \A n \in Nat : Countdown(n) \in Nat
  BY SMT DEF Countdown
<1>2. r \in EventRow /\ Countdown(r.wait) \in Nat /\ Countdown(r.lease) \in Nat
  BY <1>1 DEF RowInv, EventRow
<1>3. /\ Elapse(r) \in EventRow
      /\ Elapse(r).status = r.status
      /\ Elapse(r).attempts = r.attempts
      /\ Elapse(r).token = r.token
  BY <1>2 DEF Elapse, EventRow
<1>. QED  BY <1>3 DEF RowInv

LEMMA RetryRowFacts ==
    ASSUME NEW r \in EventRow
    PROVE  LET q == [Released(r, RetryStatus(r)) EXCEPT !.wait = RetryBackoff]
           IN  /\ q \in EventRow
               /\ q.status = RetryStatus(r)
               /\ q.attempts = r.attempts
               /\ q.token = 0
<1>1. RetryStatus(r) \in RowStatus
  BY DEF RetryStatus, RowStatus, Settled
<1>2. Released(r, RetryStatus(r)) \in EventRow
  BY <1>1, ReleasedFacts
<1>. QED  BY <1>1, <1>2, ReleasedFacts, AgentQueueAssumption DEF EventRow

LEMMA SettledRowFacts ==
    ASSUME NEW r, NEW t \in Nat, NEW o \in Outcomes, RowInv(r)
    PROVE  /\ RowInv(SettledRow(r, t, o))
           /\ SettledRow(r, t, o).attempts = r.attempts
           /\ ~HoldsLease(r, t) => SettledRow(r, t, o) = r
           /\ HoldsLease(r, t) =>
                /\ t = r.attempts
                /\ o = "ok" => SettledRow(r, t, o).status = "done"
                /\ o = "fatal" => SettledRow(r, t, o).status = "dead_letter"
                /\ o = "retry" => SettledRow(r, t, o).status = RetryStatus(r)
<1>1. CASE ~HoldsLease(r, t)
  <2>1. SettledRow(r, t, o) = r
    BY <1>1 DEF SettledRow, MarkDone, MarkDeadLetter, MarkRetry, Outcomes
  <2>. QED  BY <1>1, <2>1
<1>2. CASE HoldsLease(r, t)
  <2>1. r \in EventRow /\ t = r.attempts /\ r.attempts <= MaxAttempts
    BY <1>2 DEF RowInv, HoldsLease
  <2>2. CASE o = "ok"
    <3>1. SettledRow(r, t, o) = Released(r, "done")
      BY <1>2, <2>2 DEF SettledRow, MarkDone
    <3>. QED  BY <1>2, <2>1, <2>2, <3>1, ReleasedFacts, SMT DEF RowInv, RowStatus, Settled, EventRow
  <2>3. CASE o = "fatal"
    <3>1. SettledRow(r, t, o) = Released(r, "dead_letter")
      BY <1>2, <2>3 DEF SettledRow, MarkDeadLetter
    <3>. QED  BY <1>2, <2>1, <2>3, <3>1, ReleasedFacts, SMT DEF RowInv, RowStatus, Settled, EventRow
  <2>4. CASE o = "retry"
    <3>1. SettledRow(r, t, o) = [Released(r, RetryStatus(r)) EXCEPT !.wait = RetryBackoff]
      BY <1>2, <2>4 DEF SettledRow, MarkRetry
    <3>2. RetryStatus(r) = "retrying" => r.attempts < MaxAttempts
      BY <2>1, EventRowAssumption, SMT DEF RetryStatus, EventRow
    <3>3. RetryStatus(r) \in {"retrying", "dead_letter"}
      BY DEF RetryStatus
    <3>. QED  BY <1>2, <2>1, <2>4, <3>1, <3>2, <3>3, RetryRowFacts, SMT DEF RowInv, EventRow
  <2>. QED  BY <2>2, <2>3, <2>4 DEF Outcomes
<1>. QED  BY <1>1, <1>2

LEMMA NewRowFacts ==
    ASSUME NEW d \in Nat
    PROVE  /\ RowInv(NewRow(d))
           /\ NewRow(d).status = "queued"
           /\ NewRow(d).attempts = 0
BY EventRowAssumption, SMT DEF RowInv, NewRow, EventRow, RowStatus

----------------------------------------------------------------------------
\* The inductive invariant.

LEMMA InitIInv == Init => IInv
<1>. SUFFICES ASSUME Init PROVE IInv
  OBVIOUS
<1>1. RowInv(NoRow) /\ NoRow.status = "absent" /\ NoRow.attempts = 0
  BY EventRowAssumption, SMT DEF NoRow, RowInv, EventRow, RowStatus
<1>2. TypeOK
  <2>1. row \in [Keys -> EventRow]
    BY <1>1 DEF Init, RowInv
  <2>2. /\ held \in [Workers -> [Keys -> Nat]]
        /\ guard \in [Workers -> [Keys -> Guards]]
        /\ notified \in [Keys -> [Settled -> Nat]]
    BY DEF Init, Guards
  <2>. QED  BY <2>1, <2>2 DEF Init, TypeOK, Stages, Outcomes
<1>3. \A k \in Keys : RowInv(row[k])
  BY <1>1 DEF Init
<1>4. TokensBounded /\ UniqueHolder /\ RunsOfClaims /\ BusyInv
  BY <1>1, SMT DEF Init, TokensBounded, UniqueHolder, RunsOfClaims, BusyInv, Busy
<1>5. DoneByLatestClaim /\ DeadLetterJustified
  BY <1>1 DEF Init, DoneByLatestClaim, DeadLetterJustified
<1>. QED  BY <1>2, <1>3, <1>4, <1>5 DEF IInv

\* A step that neither claims nor settles a row.
Quiet ==
    \A k \in Keys : /\ RowInv(row[k])'
                    /\ row'[k].status = row[k].status
                    /\ row'[k].attempts = row[k].attempts

HeldShrinks ==
    \A w \in Workers, k \in Keys : held'[w][k] = held[w][k] \/ held'[w][k] = 0

\* A settled row stays as it is, and nobody takes hold of it.
SettledKept ==
    \A k \in Keys : row[k].status \in Settled =>
        /\ row'[k].status = row[k].status
        /\ row'[k].attempts = row[k].attempts
        /\ \A w \in Workers : held'[w][k] = held[w][k] \/ held'[w][k] = 0

VerdictsGrow == \A k \in Keys : verdicts[k] \subseteq verdicts'[k]

LEMMA QuietStep ==
    ASSUME IInv, TypeOK', Quiet, HeldShrinks, VerdictsGrow, RunsOfClaims', BusyInv'
    PROVE  IInv' /\ SettledKept
<1>1. TokensBounded'
  <2>. SUFFICES ASSUME NEW w \in Workers, NEW k \in Keys
                PROVE  held'[w][k] <= row'[k].attempts
    BY DEF TokensBounded
  <2>1. row[k].attempts \in Nat /\ row'[k].attempts = row[k].attempts
    BY DEF IInv, RowInv, EventRow, Quiet
  <2>2. held[w][k] <= row[k].attempts
    BY DEF IInv, TokensBounded
  <2>3. held'[w][k] = held[w][k] \/ held'[w][k] = 0
    BY DEF HeldShrinks
  <2>. QED  BY <2>1, <2>2, <2>3, SMT
<1>2. UniqueHolder'
  BY SMT DEF IInv, UniqueHolder, HeldShrinks
<1>3. DoneByLatestClaim' /\ DeadLetterJustified'
  BY DEF IInv, DoneByLatestClaim, DeadLetterJustified, Quiet, VerdictsGrow
<1>4. \A k \in Keys : RowInv(row[k])'
  BY DEF Quiet
<1>5. SettledKept
  BY DEF Quiet, HeldShrinks, SettledKept
<1>. QED  BY <1>1, <1>2, <1>3, <1>4, <1>5 DEF IInv

LEMMA RowsUnchanged ==
    ASSUME IInv, row' = row
    PROVE  Quiet
BY DEF IInv, Quiet

LEMMA EnqueueStep ==
    ASSUME IInv, NEW k \in Keys, NEW q \in Requests, Enqueue(k, q)
    PROVE  IInv' /\ SettledKept
<1>1. q.delay \in Nat
  BY AgentQueueAssumption
<1>2. row[k].status = "absent" /\ row[k].attempts = 0
  BY DEF IInv, RowInv, Enqueue, Present
<1>3. \A j \in Keys : /\ RowInv(row[j])'
                      /\ row'[j].attempts = row[j].attempts
                      /\ j # k => row'[j] = row[j]
                      /\ j = k => row'[j].status = "queued"
  BY <1>1, <1>2, NewRowFacts DEF IInv, TypeOK, Enqueue
<1>4. TypeOK'
  <2>1. Cardinality({j \in Keys : Present(row[j])}) + 1 \in Nat
    BY AgentQueueAssumption, FS_Subset, FS_CardinalityType, SMT
  <2>2. row' \in [Keys -> EventRow]
    BY <1>3 DEF IInv, TypeOK, Enqueue, RowInv
  <2>. QED  BY <2>1, <2>2 DEF IInv, TypeOK, Enqueue, loop, history
<1>5. TokensBounded' /\ UniqueHolder' /\ RunsOfClaims' /\ BusyInv'
  BY <1>3, SMT DEF IInv, TokensBounded, UniqueHolder, RunsOfClaims, BusyInv, Busy, Enqueue,
              loop, history
<1>6. DoneByLatestClaim' /\ DeadLetterJustified'
  BY <1>3 DEF IInv, DoneByLatestClaim, DeadLetterJustified, Enqueue, history
<1>7. SettledKept
  BY <1>2, <1>3 DEF SettledKept, Settled, Enqueue, loop
<1>. QED  BY <1>3, <1>4, <1>5, <1>6, <1>7 DEF IInv

LEMMA ClaimDueStep ==
    ASSUME IInv, NEW w \in Workers, ClaimDue(w)
    PROVE  IInv' /\ SettledKept
<1>. DEFINE B == Batch(w)
<1>1. B \subseteq Keys /\ \A k \in B : CanClaim(row[k])
  BY AgentQueueAssumption DEF Batch, Due
<1>. HIDE DEF B
<1>2. \A k \in Keys : row'[k] = IF k \in B THEN Claimed(row[k])
                                ELSE IF k \in Scope[w] THEN Close(row[k])
                                ELSE row[k]
  BY DEF ClaimDue, B
<1>3. \A k \in B : /\ RowInv(row[k])'
                   /\ row'[k].status = "leased"
                   /\ row'[k].attempts = row[k].attempts + 1
                   /\ Claimed(row[k]).token = row[k].attempts + 1
                   /\ row[k].status \notin Settled
  BY <1>1, <1>2, ClaimedFacts DEF IInv
<1>4. \A k \in Keys \ B :
        /\ RowInv(row[k])'
        /\ row'[k].attempts = row[k].attempts
        /\ row'[k].status # row[k].status =>
             /\ row[k].status = "leased"
             /\ row'[k].status = "dead_letter" /\ row[k].attempts >= MaxAttempts
  BY <1>2, CloseFacts, SMT DEF IInv
<1>5. \A k \in Keys : row[k].attempts \in Nat
  BY DEF IInv, RowInv, EventRow
<1>6. \A v \in Workers, k \in Keys :
        held'[v][k] = IF v = w THEN IF k \in B THEN row[k].attempts + 1 ELSE 0
                      ELSE held[v][k]
  BY <1>3, w \in Workers DEF IInv, TypeOK, ClaimDue, B
<1>7. TypeOK'
  <2>1. row' \in [Keys -> EventRow]
    <3>1. \A k \in Keys : row'[k] \in EventRow
      BY <1>3, <1>4 DEF RowInv
    <3>. QED  BY <3>1 DEF ClaimDue
  <2>2. held' \in [Workers -> [Keys -> Nat]]
    <3>1. [k \in Keys |-> IF k \in B THEN Claimed(row[k]).token ELSE 0] \in [Keys -> Nat]
      BY <1>3, <1>5, SMT
    <3>. QED  BY <3>1 DEF IInv, TypeOK, ClaimDue, B
  <2>3. stage' \in [Workers -> Stages]
    BY DEF IInv, TypeOK, ClaimDue, Stages
  <2>. QED  BY <2>1, <2>2, <2>3 DEF IInv, TypeOK, ClaimDue, history
<1>8. TokensBounded'
  <2>1. \A v \in Workers, k \in Keys : held[v][k] \in Nat /\ held[v][k] <= row[k].attempts
    BY DEF IInv, TypeOK, TokensBounded
  <2>2. \A k \in Keys : row'[k].attempts = IF k \in B THEN row[k].attempts + 1
                                            ELSE row[k].attempts
    BY <1>3, <1>4
  <2>. QED  BY <1>5, <1>6, <2>1, <2>2, SMT DEF TokensBounded
<1>9. UniqueHolder'
  <2>. SUFFICES ASSUME NEW u \in Workers, NEW v \in Workers, NEW k \in Keys, u # v,
                       held'[u][k] # 0
                PROVE  held'[u][k] # held'[v][k]
    BY DEF UniqueHolder
  <2>1. /\ held[u][k] \in Nat /\ held[u][k] <= row[k].attempts
        /\ held[v][k] \in Nat /\ held[v][k] <= row[k].attempts
        /\ held[u][k] # 0 => held[u][k] # held[v][k]
    BY DEF IInv, TypeOK, TokensBounded, UniqueHolder
  <2>. QED  BY <1>5, <1>6, <2>1, SMT
<1>10. RunsOfClaims'
  <2>. SUFFICES ASSUME NEW k \in Keys, NEW n \in runs[k]
                PROVE  n \in 1 .. row'[k].attempts
    BY DEF RunsOfClaims, ClaimDue, history
  <2>1. n \in 1 .. row[k].attempts
    BY DEF IInv, RunsOfClaims
  <2>2. row'[k].attempts = row[k].attempts \/ row'[k].attempts = row[k].attempts + 1
    BY <1>3, <1>4
  <2>. QED  BY <1>5, <2>1, <2>2, SMT
<1>11. BusyInv'
  <2>1. ~Busy(w)'
    BY DEF ClaimDue, Busy, IInv, TypeOK
  <2>2. \A v \in Workers \ {w} : stage'[v] = stage[v] /\ held'[v] = held[v]
    BY DEF ClaimDue, IInv, TypeOK
  <2>. QED  BY <2>1, <2>2 DEF IInv, BusyInv, Busy, ClaimDue, history
<1>12. DoneByLatestClaim' /\ DeadLetterJustified'
  <2>1. DoneByLatestClaim /\ DeadLetterJustified /\ verdicts' = verdicts
    BY DEF IInv, ClaimDue, history
  <2>. QED  BY <1>3, <1>4, <2>1 DEF DoneByLatestClaim, DeadLetterJustified
<1>13. \A k \in Keys : RowInv(row[k])'
  BY <1>3, <1>4
<1>14. SettledKept
  BY <1>3, <1>4, <1>6 DEF SettledKept, Settled
<1>. QED  BY <1>7, <1>8, <1>9, <1>10, <1>11, <1>12, <1>13, <1>14 DEF IInv

LEMMA RenewOnceStep ==
    ASSUME IInv, NEW w \in Workers, NEW k \in Keys, RenewOnce(w, k)
    PROVE  /\ Quiet
           /\ row' \in [Keys -> EventRow]
           /\ guard' \in [Workers -> [Keys -> Guards]]
<1>1. CASE UNCHANGED row /\ guard' = [guard EXCEPT ![w][k] = "lost"]
  BY <1>1, RowsUnchanged DEF IInv, TypeOK, Guards
<1>2. CASE /\ row' = [row EXCEPT ![k] = RenewLease(row[k], held[w][k])]
           /\ guard' = [guard EXCEPT ![w][k] =
                IF HoldsLease(row[k], held[w][k]) /\ row[k].lease > 0
                THEN "beating" ELSE "lost"]
  <2>1. Quiet
    BY <1>2, RenewFacts, SMT DEF IInv, TypeOK, Quiet
  <2>2. row' \in [Keys -> EventRow]
    BY <1>2, RenewFacts DEF IInv, TypeOK, RowInv
  <2>3. guard' \in [Workers -> [Keys -> Guards]]
    BY <1>2 DEF IInv, TypeOK, Guards
  <2>. QED  BY <2>1, <2>2, <2>3
<1>. QED  BY <1>1, <1>2 DEF RenewOnce

LEMMA StartGuardStep ==
    ASSUME IInv, NEW w \in Workers, NEW k \in Keys, StartGuard(w, k)
    PROVE  IInv' /\ SettledKept
<1>1. Quiet /\ row' \in [Keys -> EventRow] /\ guard' \in [Workers -> [Keys -> Guards]]
  BY RenewOnceStep DEF StartGuard
<1>2. TypeOK'
  BY <1>1 DEF IInv, TypeOK, StartGuard, Stages, history
<1>3. HeldShrinks /\ VerdictsGrow
  BY DEF StartGuard, HeldShrinks, VerdictsGrow, history
<1>4. RunsOfClaims'
  BY <1>1 DEF IInv, RunsOfClaims, Quiet, StartGuard, history
<1>5. BusyInv'
  BY DEF IInv, TypeOK, BusyInv, Busy, StartGuard, history
<1>. QED  BY <1>1, <1>2, <1>3, <1>4, <1>5, QuietStep

LEMMA HeartbeatStep ==
    ASSUME IInv, NEW w \in Workers, NEW k \in Keys, Heartbeat(w, k)
    PROVE  IInv' /\ SettledKept
<1>1. Quiet /\ row' \in [Keys -> EventRow] /\ guard' \in [Workers -> [Keys -> Guards]]
  BY RenewOnceStep DEF Heartbeat
<1>2. TypeOK'
  BY <1>1 DEF IInv, TypeOK, Heartbeat, history
<1>3. HeldShrinks /\ VerdictsGrow
  BY DEF Heartbeat, HeldShrinks, VerdictsGrow, history
<1>4. RunsOfClaims'
  BY <1>1 DEF IInv, RunsOfClaims, Quiet, Heartbeat, history
<1>5. BusyInv'
  BY DEF IInv, BusyInv, Busy, Heartbeat, history
<1>. QED  BY <1>1, <1>2, <1>3, <1>4, <1>5, QuietStep

LEMMA TickStep ==
    ASSUME IInv, Tick
    PROVE  IInv' /\ SettledKept
<1>1. Quiet
  BY ElapseFacts DEF IInv, Tick, Quiet
<1>2. TypeOK'
  <2>1. row' \in [Keys -> EventRow]
    BY ElapseFacts DEF IInv, Tick, RowInv
  <2>. QED  BY <2>1 DEF IInv, TypeOK, Tick, loop, history
<1>3. HeldShrinks /\ VerdictsGrow
  BY DEF Tick, HeldShrinks, VerdictsGrow, loop, history
<1>4. RunsOfClaims' /\ BusyInv'
  BY <1>1 DEF IInv, RunsOfClaims, BusyInv, Busy, Quiet, Tick, loop, history
<1>. QED  BY <1>1, <1>2, <1>3, <1>4, QuietStep

\* Finishing an item only lets go of it.
LEMMA FinishFacts ==
    ASSUME IInv, NEW w \in Workers, NEW k \in Keys, Finish(w, k)
    PROVE  /\ HeldShrinks
           /\ ~Busy(w)'
           /\ \A v \in Workers \ {w} : /\ stage'[v] = stage[v] /\ held'[v] = held[v]
                                       /\ item'[v] = item[v] /\ outcome'[v] = outcome[v]
           /\ held' \in [Workers -> [Keys -> Nat]]
           /\ guard' \in [Workers -> [Keys -> Guards]]
           /\ item' \in [Workers -> Keys \cup {NoKey}]
           /\ outcome' \in [Workers -> Outcomes]
           /\ stage' \in [Workers -> Stages]
<1>1. HeldShrinks
  BY DEF IInv, TypeOK, Finish, HeldShrinks
<1>2. ~Busy(w)' /\ stage' \in [Workers -> Stages]
  BY DEF IInv, TypeOK, Finish, Busy, Stages
<1>3. \A v \in Workers \ {w} : /\ stage'[v] = stage[v] /\ held'[v] = held[v]
                               /\ item'[v] = item[v] /\ outcome'[v] = outcome[v]
  BY DEF IInv, TypeOK, Finish
<1>4. held' \in [Workers -> [Keys -> Nat]]
  BY DEF IInv, TypeOK, Finish
<1>5. guard' \in [Workers -> [Keys -> Guards]]
  BY DEF IInv, TypeOK, Finish, Guards
<1>6. item' \in [Workers -> Keys \cup {NoKey}] /\ outcome' \in [Workers -> Outcomes]
  BY DEF IInv, TypeOK, Finish, Outcomes
<1>. QED  BY <1>1, <1>2, <1>3, <1>4, <1>5, <1>6

\* The steps of one worker that finish an item and leave rows and verdicts be.
LEMMA FinishQuietly ==
    ASSUME IInv, NEW w \in Workers, NEW k \in Keys, Finish(w, k),
           UNCHANGED <<rows, verdicts, runs>>, notified' \in [Keys -> [Settled -> Nat]]
    PROVE  IInv' /\ SettledKept
<1>1. Quiet /\ VerdictsGrow
  BY RowsUnchanged DEF rows, VerdictsGrow
<1>2. TypeOK'
  BY FinishFacts DEF IInv, TypeOK, rows
<1>3. RunsOfClaims'
  BY DEF IInv, RunsOfClaims, rows
<1>4. BusyInv'
  BY FinishFacts DEF IInv, BusyInv, Busy
<1>. QED  BY <1>1, <1>2, <1>3, <1>4, FinishFacts, QuietStep

LEMMA SkipLostStep ==
    ASSUME IInv, NEW w \in Workers, NEW k \in Keys, SkipLost(w, k)
    PROVE  IInv' /\ SettledKept
<1>1. Finish(w, k) /\ UNCHANGED <<rows, verdicts, runs>>
  BY DEF SkipLost, history
<1>2. notified' \in [Keys -> [Settled -> Nat]]
  BY DEF SkipLost, history, IInv, TypeOK
<1>. QED  BY <1>1, <1>2, FinishQuietly

LEMMA CancelLostStep ==
    ASSUME IInv, NEW w \in Workers, CancelLost(w)
    PROVE  IInv' /\ SettledKept
<1>1. Finish(w, item[w]) /\ UNCHANGED <<rows, verdicts, runs>>
  BY DEF CancelLost, history
<1>2. notified' \in [Keys -> [Settled -> Nat]]
  BY DEF CancelLost, history, IInv, TypeOK
<1>3. item[w] \in Keys
  BY DEF CancelLost, IInv, BusyInv, Busy
<1>. QED  BY <1>1, <1>2, <1>3, FinishQuietly

LEMMA NotifyStep ==
    ASSUME IInv, NEW w \in Workers, Notify(w)
    PROVE  IInv' /\ SettledKept
<1>1. Finish(w, item[w]) /\ UNCHANGED <<rows, verdicts, runs>>
  BY DEF Notify
<1>2. item[w] \in Keys
  BY DEF Notify, IInv, BusyInv, Busy
<1>3. notified' \in [Keys -> [Settled -> Nat]]
  <2>. DEFINE s == Reported(w)
  <2>. HIDE DEF s
  <2>1. notified \in [Keys -> [Settled -> Nat]]
    BY DEF IInv, TypeOK
  <2>2. notified' = IF s \in Settled THEN [notified EXCEPT ![item[w]][s] = @ + 1]
                    ELSE notified
    BY DEF Notify, s
  <2>. QED  BY <1>2, <2>1, <2>2, SMT
<1>. QED  BY <1>1, <1>2, <1>3, FinishQuietly

LEMMA StartHandlerStep ==
    ASSUME IInv, NEW w \in Workers, NEW k \in Keys, StartHandler(w, k)
    PROVE  IInv' /\ SettledKept
<1>1. k \in Keys /\ held[w][k] # 0 /\ held[w][k] \in 1 .. row[k].attempts
  BY SMT DEF StartHandler, IsNextItem, Holding, IInv, TypeOK, TokensBounded, RowInv, EventRow
<1>2. Quiet /\ HeldShrinks /\ VerdictsGrow
  BY RowsUnchanged DEF StartHandler, rows, HeldShrinks, VerdictsGrow
<1>3. RunsOfClaims'
  BY <1>1 DEF IInv, TypeOK, RunsOfClaims, StartHandler, rows
<1>4. TypeOK'
  <2>1. runs' \in [Keys -> SUBSET Nat]
    BY SMT DEF IInv, TypeOK, StartHandler
  <2>2. stage' \in [Workers -> Stages] /\ item' \in [Workers -> Keys \cup {NoKey}]
    BY DEF IInv, TypeOK, StartHandler, Stages
  <2>. QED  BY <2>1, <2>2 DEF IInv, TypeOK, StartHandler, rows
<1>5. BusyInv'
  <2>1. stage'[w] = "handling" /\ item'[w] = k
    BY DEF IInv, TypeOK, StartHandler
  <2>2. \A v \in Workers \ {w} : stage'[v] = stage[v] /\ item'[v] = item[v]
    BY DEF IInv, TypeOK, StartHandler
  <2>. QED  BY <1>1, <2>1, <2>2 DEF IInv, BusyInv, Busy, StartHandler
<1>. QED  BY <1>2, <1>3, <1>4, <1>5, QuietStep

LEMMA HandlerEndsStep ==
    ASSUME IInv, NEW w \in Workers, NEW o \in Outcomes, HandlerEnds(w, o)
    PROVE  IInv' /\ SettledKept
<1>. DEFINE i == item[w]
<1>. DEFINE t == held[w][i]
<1>1. i \in Keys /\ t # 0 /\ t \in Nat
  BY ZenonT(40) DEF HandlerEnds, IInv, BusyInv, Busy, TypeOK
<1>2. Quiet /\ HeldShrinks
  BY RowsUnchanged DEF HandlerEnds, rows, HeldShrinks
<1>3. verdicts' = [verdicts EXCEPT ![i] = verdicts[i] \cup {<<t, o>>}]
  BY DEF HandlerEnds
<1>. HIDE DEF i, t
<1>4. VerdictsGrow
  BY <1>1, <1>3 DEF IInv, TypeOK, VerdictsGrow
<1>5. verdicts' \in [Keys -> SUBSET (Nat \X Outcomes)] /\ <<t, o>> \in verdicts'[i]
  BY <1>1, <1>3, SMT DEF IInv, TypeOK
<1>6. RunsOfClaims'
  BY DEF IInv, RunsOfClaims, HandlerEnds, rows
<1>7. /\ stage' \in [Workers -> Stages] /\ outcome' \in [Workers -> Outcomes]
      /\ stage'[w] = "settling" /\ outcome'[w] = o
      /\ \A v \in Workers \ {w} : stage'[v] = stage[v] /\ outcome'[v] = outcome[v]
  BY DEF IInv, TypeOK, HandlerEnds, Stages
<1>8. TypeOK'
  BY <1>5, <1>7 DEF IInv, TypeOK, HandlerEnds, rows
<1>9. BusyInv'
  <2>. SUFFICES ASSUME NEW v \in Workers, Busy(v)'
                PROVE  /\ item[v] \in Keys
                       /\ held[v][item[v]] # 0
                       /\ stage'[v] # "handling" /\ outcome'[v] # "retry" =>
                            <<held[v][item[v]], outcome'[v]>> \in verdicts'[item[v]]
    BY DEF BusyInv, HandlerEnds
  <2>1. CASE v = w
    BY <1>1, <1>5, <1>7, <2>1 DEF i, t
  <2>2. CASE v # w
    BY <1>4, <1>7, <2>2 DEF IInv, BusyInv, Busy, VerdictsGrow
  <2>. QED  BY <2>1, <2>2
<1>. QED  BY <1>2, <1>4, <1>6, <1>8, <1>9, QuietStep

LEMMA MarkDoneRaisesStep ==
    ASSUME IInv, NEW w \in Workers, MarkDoneRaises(w)
    PROVE  IInv' /\ SettledKept
<1>1. Quiet /\ HeldShrinks /\ VerdictsGrow
  BY RowsUnchanged DEF MarkDoneRaises, rows, history, HeldShrinks, VerdictsGrow
<1>2. TypeOK'
  BY DEF IInv, TypeOK, MarkDoneRaises, rows, history, Outcomes
<1>3. RunsOfClaims'
  BY DEF IInv, RunsOfClaims, MarkDoneRaises, rows, history
<1>4. outcome'[w] = "retry" /\ \A v \in Workers \ {w} : outcome'[v] = outcome[v]
  BY DEF IInv, TypeOK, MarkDoneRaises
<1>5. BusyInv'
  BY <1>4 DEF IInv, BusyInv, Busy, MarkDoneRaises, history
<1>. QED  BY <1>1, <1>2, <1>3, <1>5, QuietStep

LEMMA CrashStep ==
    ASSUME IInv, NEW w \in Workers, Crash(w)
    PROVE  IInv' /\ SettledKept
<1>1. Quiet /\ VerdictsGrow
  BY RowsUnchanged DEF Crash, rows, history, VerdictsGrow
<1>2. HeldShrinks
  BY DEF IInv, TypeOK, Crash, HeldShrinks
<1>3. TypeOK'
  <2>1. held' \in [Workers -> [Keys -> Nat]] /\ guard' \in [Workers -> [Keys -> Guards]]
    BY DEF IInv, TypeOK, Crash, Guards
  <2>. QED  BY <2>1 DEF IInv, TypeOK, Crash, rows, history, Stages, Outcomes
<1>4. RunsOfClaims'
  BY DEF IInv, RunsOfClaims, Crash, rows, history
<1>5. BusyInv'
  <2>1. ~Busy(w)'
    BY DEF IInv, TypeOK, Crash, Busy
  <2>2. \A v \in Workers \ {w} : /\ stage'[v] = stage[v] /\ held'[v] = held[v]
                                 /\ item'[v] = item[v] /\ outcome'[v] = outcome[v]
    BY DEF IInv, TypeOK, Crash
  <2>. QED  BY <2>1, <2>2 DEF IInv, BusyInv, Busy, Crash, history
<1>. QED  BY <1>1, <1>2, <1>3, <1>4, <1>5, QuietStep

\* What settling does to the row: nothing unless the worker still holds the
\* lease, and then the row gets the status of the outcome.
LEMMA SettleFacts ==
    ASSUME IInv, NEW w \in Workers, Settle(w)
    PROVE  /\ item[w] \in Keys
           /\ held[w][item[w]] \in Nat \ {0}
           /\ \A k \in Keys : RowInv(row[k])' /\ row'[k].attempts = row[k].attempts
           /\ \A k \in Keys \ {item[w]} : row'[k] = row[k]
           /\ ~HoldsLease(row[item[w]], held[w][item[w]]) => row' = row
           /\ HoldsLease(row[item[w]], held[w][item[w]]) =>
                /\ row[item[w]].attempts = held[w][item[w]]
                /\ row[item[w]].status = "leased"
                /\ outcome[w] = "ok" => row'[item[w]].status = "done"
                /\ outcome[w] = "fatal" => row'[item[w]].status = "dead_letter"
                /\ outcome[w] = "retry" => row'[item[w]].status = RetryStatus(row[item[w]])
<1>. DEFINE i == item[w]
<1>. DEFINE t == held[w][i]
<1>1. i \in Keys /\ t # 0 /\ t \in Nat /\ outcome[w] \in Outcomes
  <2>1. held \in [Workers -> [Keys -> Nat]] /\ outcome \in [Workers -> Outcomes]
    BY DEF IInv, TypeOK
  <2>2. i \in Keys /\ t # 0
    BY DEF Settle, IInv, BusyInv, Busy
  <2>. QED  BY <2>1, <2>2
<1>2. row' = [row EXCEPT ![i] = SettledRow(row[i], t, outcome[w])]
  BY DEF Settle
<1>3. row \in [Keys -> EventRow] /\ \A k \in Keys : RowInv(row[k])
  BY DEF IInv, TypeOK
<1>. HIDE DEF i, t
<1>4. row'[i] = SettledRow(row[i], t, outcome[w]) /\ \A k \in Keys \ {i} : row'[k] = row[k]
  BY <1>1, <1>2, <1>3
<1>5. \A k \in Keys : RowInv(row[k])' /\ row'[k].attempts = row[k].attempts
  BY <1>1, <1>3, <1>4, SettledRowFacts, SMT
<1>6. ~HoldsLease(row[i], t) => row' = row
  BY <1>1, <1>2, <1>3, SettledRowFacts, SMT
<1>7. HoldsLease(row[i], t) =>
                /\ row[i].attempts = t
                /\ row[i].status = "leased"
                /\ outcome[w] = "ok" => row'[i].status = "done"
                /\ outcome[w] = "fatal" => row'[i].status = "dead_letter"
                /\ outcome[w] = "retry" => row'[i].status = RetryStatus(row[i])
  BY <1>1, <1>3, <1>4, SettledRowFacts, SMT DEF HoldsLease
<1>. QED  BY <1>1, <1>4, <1>5, <1>6, <1>7 DEF i, t

LEMMA SettleStep ==
    ASSUME IInv, NEW w \in Workers, Settle(w)
    PROVE  IInv' /\ SettledKept
<1>. DEFINE i == item[w]
<1>. DEFINE t == held[w][i]
<1>. DEFINE o == outcome[w]
<1>1. /\ i \in Keys
      /\ t \in Nat \ {0}
      /\ \A k \in Keys : RowInv(row[k])' /\ row'[k].attempts = row[k].attempts
      /\ \A k \in Keys \ {i} : row'[k] = row[k]
      /\ ~HoldsLease(row[i], t) => row' = row
      /\ HoldsLease(row[i], t) =>
           /\ row[i].attempts = t
           /\ row[i].status = "leased"
           /\ o = "ok" => row'[i].status = "done"
           /\ o = "fatal" => row'[i].status = "dead_letter"
           /\ o = "retry" => row'[i].status = RetryStatus(row[i])
  BY SettleFacts
<1>2. o \in Outcomes /\ (o # "retry" => <<t, o>> \in verdicts[i])
  BY DEF Settle, IInv, BusyInv, Busy, TypeOK
<1>3. \/ HoldsLease(row[i], t) /\ stage' = [stage EXCEPT ![w] = "notifying"]
         /\ UNCHANGED <<held, guard, item, outcome>>
      \/ ~HoldsLease(row[i], t) /\ Finish(w, i)
  BY DEF Settle
<1>4. UNCHANGED <<request, rowid, verdicts, runs, notified>>
  BY DEF Settle, history
<1>5. stage[w] = "settling"
  BY DEF Settle
<1>. HIDE DEF i, t, o
<1>6. HeldShrinks
  BY <1>1, <1>3, FinishFacts DEF HeldShrinks
<1>7. TypeOK'
  <2>1. row' \in [Keys -> EventRow]
    <3>1. \A k \in Keys : row'[k] \in EventRow
      BY <1>1 DEF RowInv
    <3>2. DOMAIN row' = Keys /\ row' = [k \in Keys |-> row'[k]]
      BY DEF Settle, IInv, TypeOK
    <3>. QED  BY <3>1, <3>2
  <2>2. CASE HoldsLease(row[i], t)
    BY <1>3, <1>4, <2>1, <2>2 DEF IInv, TypeOK, Stages
  <2>3. CASE ~HoldsLease(row[i], t)
    BY <1>1, <1>3, <1>4, <2>1, <2>3, FinishFacts DEF IInv, TypeOK
  <2>. QED  BY <2>2, <2>3
<1>8. TokensBounded'
  <2>. SUFFICES ASSUME NEW v \in Workers, NEW k \in Keys
                PROVE  held'[v][k] <= row'[k].attempts
    BY DEF TokensBounded
  <2>1. row[k].attempts \in Nat /\ row'[k].attempts = row[k].attempts
    BY <1>1 DEF IInv, RowInv, EventRow
  <2>2. held[v][k] <= row[k].attempts
    BY DEF IInv, TokensBounded
  <2>. QED  BY <1>6, <2>1, <2>2, SMT DEF HeldShrinks
<1>9. UniqueHolder'
  <2>1. UniqueHolder
    BY DEF IInv
  <2>. QED  BY <1>6, <2>1, SMT DEF UniqueHolder, HeldShrinks
<1>10. RunsOfClaims'
  <2>1. runs' = runs /\ \A k \in Keys : row'[k].attempts = row[k].attempts
    BY <1>1, <1>4
  <2>. QED  BY <2>1 DEF IInv, RunsOfClaims
<1>11. BusyInv'
  <2>1. CASE HoldsLease(row[i], t)
    <3>1. stage'[w] = "notifying" /\ \A v \in Workers \ {w} : stage'[v] = stage[v]
      BY <1>3, <2>1 DEF IInv, TypeOK
    <3>. QED  BY <1>1, <1>2, <1>3, <1>4, <2>1, <3>1 DEF IInv, BusyInv, Busy, i, t, o
  <2>2. CASE ~HoldsLease(row[i], t)
    BY <1>1, <1>3, <1>4, <2>2, FinishFacts, ZenonT(40) DEF IInv, BusyInv, Busy
  <2>. QED  BY <2>1, <2>2
<1>12. DoneByLatestClaim'
  <2>1. CASE HoldsLease(row[i], t)
    <3>1. row'[i].status = "done" => o = "ok"
      BY <1>1, <1>2, <2>1 DEF Outcomes, RetryStatus
    <3>. QED  BY <1>1, <1>2, <1>4, <2>1, <3>1 DEF IInv, DoneByLatestClaim
  <2>2. CASE ~HoldsLease(row[i], t)
    BY <1>1, <1>4, <2>2 DEF IInv, DoneByLatestClaim
  <2>. QED  BY <2>1, <2>2
<1>13. DeadLetterJustified'
  <2>1. CASE HoldsLease(row[i], t)
    <3>1. row'[i].status = "dead_letter" => o = "fatal" \/ row[i].attempts >= MaxAttempts
      BY <1>1, <1>2, <2>1 DEF Outcomes, RetryStatus
    <3>. QED  BY <1>1, <1>2, <1>4, <2>1, <3>1 DEF IInv, DeadLetterJustified
  <2>2. CASE ~HoldsLease(row[i], t)
    BY <1>1, <1>4, <2>2 DEF IInv, DeadLetterJustified
  <2>. QED  BY <2>1, <2>2
<1>14. SettledKept
  BY <1>1, <1>6 DEF SettledKept, HeldShrinks, Settled
<1>. QED  BY <1>1, <1>7, <1>8, <1>9, <1>10, <1>11, <1>12, <1>13, <1>14 DEF IInv

LEMMA NextIInv == IInv /\ [Next]_vars => IInv' /\ SettledKept
<1>. SUFFICES ASSUME IInv, [Next]_vars PROVE IInv' /\ SettledKept
  OBVIOUS
<1>1. ASSUME NEW k \in Keys, NEW q \in Requests, Enqueue(k, q) PROVE IInv' /\ SettledKept
  BY <1>1, EnqueueStep
<1>2. ASSUME NEW w \in Workers, NEW k \in Keys,
             \/ StartGuard(w, k) \/ Heartbeat(w, k)
             \/ StartHandler(w, k) \/ SkipLost(w, k)
      PROVE  IInv' /\ SettledKept
  BY <1>2, StartGuardStep, HeartbeatStep, StartHandlerStep, SkipLostStep
<1>3. ASSUME NEW w \in Workers, NEW o \in Outcomes, HandlerEnds(w, o)
      PROVE  IInv' /\ SettledKept
  BY <1>3, HandlerEndsStep
<1>4. ASSUME NEW w \in Workers,
             \/ ClaimDue(w) \/ CancelLost(w) \/ MarkDoneRaises(w)
             \/ Settle(w) \/ Notify(w) \/ Crash(w)
      PROVE  IInv' /\ SettledKept
  BY <1>4, ClaimDueStep, CancelLostStep, MarkDoneRaisesStep, SettleStep, NotifyStep, CrashStep
<1>5. CASE Tick
  BY <1>5, TickStep
<1>6. CASE UNCHANGED vars
  <2>1. IInv'
    BY <1>6 DEF vars, rows, loop, history, IInv, TypeOK, RowInv, TokensBounded, UniqueHolder,
                RunsOfClaims, BusyInv, Busy, DoneByLatestClaim, DeadLetterJustified
  <2>2. SettledKept
    BY <1>6 DEF vars, rows, loop, SettledKept
  <2>. QED  BY <2>1, <2>2
<1>. QED  BY <1>1, <1>2, <1>3, <1>4, <1>5, <1>6 DEF Next

----------------------------------------------------------------------------
\* The reports to the observer.

ReportsOK == ReportInv /\ ReportedInv /\ NotifiedOnce

\* Who is notifying after the step was notifying before it, of the same item.
NotifyingKept ==
    \A v \in Workers : stage'[v] = "notifying" =>
        /\ stage[v] = "notifying" /\ item'[v] = item[v]
        /\ outcome'[v] = outcome[v] /\ held'[v] = held[v]

LEMMA ReportsFrame ==
    ASSUME IInv, ReportsOK, SettledKept, NotifyingKept, notified' = notified
    PROVE  ReportsOK'
<1>1. ReportInv'
  <2>. SUFFICES ASSUME NEW v \in Workers, stage'[v] = "notifying", Reported(v)' \in Settled
                PROVE  /\ row'[item'[v]].status = Reported(v)'
                       /\ row'[item'[v]].attempts = held'[v][item'[v]]
                       /\ Silent(item[v])'
    BY DEF ReportInv, Silent
  <2>1. /\ stage[v] = "notifying" /\ item'[v] = item[v]
        /\ outcome'[v] = outcome[v] /\ held'[v] = held[v]
    BY DEF NotifyingKept
  <2>2. Reported(v)' = Reported(v)
    BY <2>1 DEF Reported
  <2>3. item[v] \in Keys
    BY <2>1 DEF IInv, BusyInv, Busy
  <2>4. /\ row[item[v]].status = Reported(v)
        /\ row[item[v]].attempts = held[v][item[v]]
        /\ Silent(item[v])
    BY <2>1, <2>2 DEF ReportsOK, ReportInv
  <2>5. /\ row'[item[v]].status = row[item[v]].status
        /\ row'[item[v]].attempts = row[item[v]].attempts
    BY <2>2, <2>3, <2>4 DEF SettledKept
  <2>. QED  BY <2>1, <2>2, <2>4, <2>5 DEF Silent
<1>2. ReportedInv' /\ NotifiedOnce'
  BY SMT DEF ReportsOK, ReportedInv, NotifiedOnce, Silent, SettledKept
<1>. QED  BY <1>1, <1>2 DEF ReportsOK

LEMMA ReportsSettle ==
    ASSUME IInv, ReportsOK, SettledKept, NEW w \in Workers, Settle(w)
    PROVE  ReportsOK'
<1>. DEFINE i == item[w]
<1>. DEFINE t == held[w][i]
<1>1. CASE ~HoldsLease(row[i], t)
  <2>1. i \in Keys /\ Finish(w, i)
    BY <1>1, SettleFacts DEF Settle
  <2>2. NotifyingKept
    BY <2>1, FinishFacts DEF NotifyingKept, Busy
  <2>. QED  BY <2>2, ReportsFrame DEF Settle, history
<1>2. CASE HoldsLease(row[i], t)
  <2>1. /\ i \in Keys
        /\ t \in Nat \ {0}
        /\ row[i].attempts = t
        /\ row'[i].attempts = t
        /\ row[i].status = "leased"
        /\ outcome[w] = "ok" => row'[i].status = "done"
        /\ outcome[w] = "fatal" => row'[i].status = "dead_letter"
        /\ outcome[w] = "retry" => row'[i].status = RetryStatus(row[i])
    BY <1>2, SettleFacts
  <2>2. /\ stage'[w] = "notifying"
        /\ \A v \in Workers \ {w} : stage'[v] = stage[v]
        /\ UNCHANGED <<held, item, outcome, notified>>
    BY <1>2 DEF Settle, IInv, TypeOK, history
  <2>3. Silent(i)
    BY <2>1 DEF ReportsOK, ReportedInv, Settled
  <2>. HIDE DEF i, t
  <2>4. Reported(w)' \in Settled => row'[i].status = Reported(w)'
    <3>1. Reported(w)' = Reported(w)
      BY <2>2 DEF Reported
    <3>2. outcome[w] \in Outcomes
      BY DEF IInv, TypeOK
    <3>. QED  BY <2>1, <3>1, <3>2 DEF Reported, RetryStatus, Outcomes, Settled, i, t
  <2>5. ReportInv'
    <3>. SUFFICES ASSUME NEW v \in Workers, stage'[v] = "notifying", Reported(v)' \in Settled
                  PROVE  /\ row'[item[v]].status = Reported(v)'
                         /\ row'[item[v]].attempts = held[v][item[v]]
                         /\ Silent(item[v])
      BY <2>2 DEF ReportInv, Silent
    <3>1. CASE v = w
      BY <2>1, <2>3, <2>4, <3>1 DEF i, t
    <3>2. CASE v # w
      <4>1. stage[v] = "notifying" /\ Reported(v)' = Reported(v)
        BY <2>2, <3>2 DEF Reported
      <4>2. /\ row[item[v]].status = Reported(v)
            /\ row[item[v]].attempts = held[v][item[v]]
            /\ Silent(item[v])
        BY <4>1 DEF ReportsOK, ReportInv
      <4>3. item[v] \in Keys
        BY <4>1 DEF IInv, BusyInv, Busy
      <4>. QED  BY <4>1, <4>2, <4>3 DEF SettledKept
    <3>. QED  BY <3>1, <3>2
  <2>6. ReportedInv' /\ NotifiedOnce'
    BY <2>2, SMT DEF ReportsOK, ReportedInv, NotifiedOnce, Silent, SettledKept
  <2>. QED  BY <2>5, <2>6 DEF ReportsOK
<1>. QED  BY <1>1, <1>2

LEMMA ReportsNotify ==
    ASSUME IInv, ReportsOK, SettledKept, NEW w \in Workers, Notify(w)
    PROVE  ReportsOK'
<1>. DEFINE i == item[w]
<1>. DEFINE s == Reported(w)
<1>1. i \in Keys /\ held[w][i] # 0 /\ Finish(w, i) /\ row' = row
  BY DEF Notify, IInv, BusyInv, Busy, rows
<1>2. NotifyingKept
  BY <1>1, FinishFacts DEF NotifyingKept, Busy
<1>3. CASE s \notin Settled
  BY <1>2, <1>3, ReportsFrame DEF Notify
<1>4. CASE s \in Settled
  <2>1. /\ row[i].status = s
        /\ row[i].attempts = held[w][i]
        /\ notified[i] = [x \in Settled |-> 0]
    BY <1>4 DEF Notify, ReportsOK, ReportInv, Silent
  <2>2. notified' = [notified EXCEPT ![i][s] = notified[i][s] + 1]
    BY <1>4 DEF Notify
  <2>3. notified \in [Keys -> [Settled -> Nat]]
    BY DEF IInv, TypeOK
  <2>. HIDE DEF i, s
  <2>4. /\ \A k \in Keys \ {i} : notified'[k] = notified[k]
        /\ notified'[i] = [x \in Settled |-> IF x = s THEN 1 ELSE 0]
    BY <1>1, <1>4, <2>1, <2>2, <2>3, SMT
  <2>5. held'[w][i] = 0 /\ \A v \in Workers \ {w} : held'[v] = held[v]
    <3>1. held \in [Workers -> [Keys -> Nat]]
      BY DEF IInv, TypeOK
    <3>2. held' = [held EXCEPT ![w][i] = 0]
      BY <1>1 DEF Finish
    <3>. QED  BY <1>1, <3>1, <3>2
  <2>6. ReportInv'
    <3>. SUFFICES ASSUME NEW v \in Workers, stage'[v] = "notifying", Reported(v)' \in Settled
                  PROVE  /\ row[item'[v]].status = Reported(v)'
                         /\ row[item'[v]].attempts = held'[v][item'[v]]
                         /\ Silent(item[v])'
      BY <1>1 DEF ReportInv, Silent
    <3>1. /\ stage[v] = "notifying" /\ item'[v] = item[v]
          /\ outcome'[v] = outcome[v] /\ held'[v] = held[v]
      BY <1>2 DEF NotifyingKept
    <3>2. v # w
      BY <1>1, FinishFacts DEF Busy
    <3>3. Reported(v)' = Reported(v)
      BY <3>1 DEF Reported
    <3>4. /\ row[item[v]].status = Reported(v)
          /\ row[item[v]].attempts = held[v][item[v]]
          /\ Silent(item[v]) /\ item[v] \in Keys
      BY <3>1, <3>3 DEF ReportsOK, ReportInv, IInv, BusyInv, Busy
    <3>5. item[v] # i
      <4>1. UniqueHolder
        BY DEF IInv
      <4>. QED  BY <1>1, <2>1, <3>2, <3>4, <4>1, SMT DEF UniqueHolder
    <3>. QED  BY <2>4, <3>1, <3>3, <3>4, <3>5 DEF Silent
  <2>7. ReportedInv'
    <3>. SUFFICES ASSUME NEW k \in Keys, ~Silent(k)'
                  PROVE  /\ row[k].status \in Settled
                         /\ row[k].attempts # 0
                         /\ \A v \in Workers : held'[v][k] # row[k].attempts
      BY <1>1 DEF ReportedInv, Silent
    <3>1. CASE k = i
      <4>1. row[k].status \in Settled /\ row[k].attempts # 0
        BY <1>1, <1>4, <2>1, <3>1
      <4>2. \A v \in Workers \ {w} : held[v][k] # row[k].attempts
        BY <1>1, <2>1, <3>1, SMT DEF IInv, UniqueHolder
      <4>3. \A v \in Workers : held'[v][k] # row[k].attempts
        BY <2>5, <3>1, <4>1, <4>2
      <4>. QED  BY <4>1, <4>3
    <3>2. CASE k # i
      <4>1. ~Silent(k)
        BY <2>4, <3>2 DEF Silent
      <4>2. /\ row[k].status \in Settled /\ row[k].attempts # 0
            /\ \A v \in Workers : held[v][k] # row[k].attempts
        BY <4>1 DEF ReportsOK, ReportedInv
      <4>3. HeldShrinks
        BY <1>1, FinishFacts
      <4>. QED  BY <4>2, <4>3 DEF HeldShrinks
    <3>. QED  BY <3>1, <3>2
  <2>8. NotifiedOnce'
    BY <1>1, <1>4, <2>1, <2>4, SMT DEF ReportsOK, NotifiedOnce
  <2>. QED  BY <2>6, <2>7, <2>8 DEF ReportsOK
<1>. QED  BY <1>3, <1>4

LEMMA NextReports == IInv /\ ReportsOK /\ [Next]_vars => ReportsOK'
<1>. SUFFICES ASSUME IInv, ReportsOK, [Next]_vars PROVE ReportsOK'
  OBVIOUS
<1>. SettledKept
  BY NextIInv
<1>1. ASSUME NEW w \in Workers, Settle(w) PROVE ReportsOK'
  BY <1>1, ReportsSettle
<1>2. ASSUME NEW w \in Workers, Notify(w) PROVE ReportsOK'
  BY <1>2, ReportsNotify
<1>3. ASSUME NEW k \in Keys, NEW q \in Requests, Enqueue(k, q) PROVE ReportsOK'
  BY <1>3, ReportsFrame DEF Enqueue, loop, history, NotifyingKept
<1>4. ASSUME NEW w \in Workers, NEW k \in Keys, StartGuard(w, k) \/ Heartbeat(w, k)
      PROVE  ReportsOK'
  <2>1. NotifyingKept /\ notified' = notified
    BY <1>4 DEF StartGuard, Heartbeat, history, NotifyingKept, IInv, TypeOK
  <2>. QED  BY <2>1, ReportsFrame
<1>5. ASSUME NEW w \in Workers, NEW k \in Keys, StartHandler(w, k) PROVE ReportsOK'
  <2>1. NotifyingKept /\ notified' = notified
    BY <1>5 DEF StartHandler, NotifyingKept, IInv, TypeOK
  <2>. QED  BY <2>1, ReportsFrame
<1>6. ASSUME NEW w \in Workers, NEW k \in Keys, SkipLost(w, k) PROVE ReportsOK'
  <2>1. NotifyingKept /\ notified' = notified
    BY <1>6, FinishFacts DEF SkipLost, NotifyingKept, Busy, history
  <2>. QED  BY <2>1, ReportsFrame
<1>7. ASSUME NEW w \in Workers, CancelLost(w) PROVE ReportsOK'
  <2>1. item[w] \in Keys
    BY <1>7 DEF CancelLost, IInv, BusyInv, Busy
  <2>2. NotifyingKept /\ notified' = notified
    BY <1>7, <2>1, FinishFacts DEF CancelLost, NotifyingKept, Busy, history
  <2>. QED  BY <2>2, ReportsFrame
<1>8. ASSUME NEW w \in Workers, NEW o \in Outcomes, HandlerEnds(w, o) PROVE ReportsOK'
  <2>1. NotifyingKept /\ notified' = notified
    BY <1>8 DEF HandlerEnds, NotifyingKept, IInv, TypeOK
  <2>. QED  BY <2>1, ReportsFrame
<1>9. ASSUME NEW w \in Workers, ClaimDue(w) \/ MarkDoneRaises(w) \/ Crash(w)
      PROVE  ReportsOK'
  <2>1. NotifyingKept /\ notified' = notified
    BY <1>9 DEF ClaimDue, MarkDoneRaises, Crash, history, NotifyingKept, IInv, TypeOK
  <2>. QED  BY <2>1, ReportsFrame
<1>10. CASE Tick
  BY <1>10, ReportsFrame DEF Tick, loop, history, NotifyingKept
<1>11. CASE UNCHANGED vars
  BY <1>11, ReportsFrame DEF vars, loop, history, NotifyingKept
<1>. QED  BY <1>1, <1>2, <1>3, <1>4, <1>5, <1>6, <1>7, <1>8, <1>9, <1>10, <1>11 DEF Next

----------------------------------------------------------------------------
\* The theorems.

LEMMA Invariance == Spec => [](IInv /\ ReportsOK)
<1>1. Init => ReportsOK
  BY SMT DEF Init, ReportsOK, ReportInv, ReportedInv, NotifiedOnce, Silent
<1>. QED  BY InitIInv, NextIInv, NextReports, <1>1, PTL DEF Spec

\* The queue rows, the workers and the histories keep their types.
THEOREM TypeCorrect == Spec => []TypeOK
BY Invariance, PTL DEF IInv

\* Lease tokens fence: one holder per token, an event done only by the result
\* of its latest claim, dead-lettered only when that is justified.
THEOREM Fencing == Spec => []FencedOutcomes
BY Invariance, PTL DEF IInv, FencedOutcomes, OutcomeJustified

\* The handler of an event is called under at most max_attempts claims.
THEOREM RunsAreBounded == Spec => []RunsBounded
<1>1. IInv => RunsBounded
  <2>. SUFFICES ASSUME IInv, NEW k \in Keys, NEW n \in runs[k] PROVE n \in 1 .. MaxAttempts
    BY DEF RunsBounded
  <2>1. /\ n \in 1 .. row[k].attempts
        /\ row[k].attempts \in Nat
        /\ row[k].attempts <= MaxAttempts
    BY DEF IInv, RunsOfClaims, RowInv, EventRow
  <2>2. MaxAttempts \in Nat
    BY EventRowAssumption
  <2>. QED  BY <2>1, <2>2, SMT
<1>. QED  BY <1>1, Invariance, PTL

\* The observer is told of a settled outcome at most once, and of the one the
\* row keeps.
THEOREM ReportsAreFinal == Spec => []NotifiedOnce
BY Invariance, PTL DEF ReportsOK

\* Together: the queue run's invariant on types, handler calls and reports.
THEOREM Consistent == Spec => []QueueConsistent
BY TypeCorrect, RunsAreBounded, ReportsAreFinal, PTL DEF QueueConsistent

\* No step leaves done or dead_letter or charges a settled event an attempt.
THEOREM SettledStays == Spec => SettledIsFinal
<1>1. IInv /\ [Next]_vars =>
        [\A k \in Keys : row[k].status \in Settled =>
           row'[k].status = row[k].status /\ row'[k].attempts = row[k].attempts]_vars
  BY NextIInv DEF SettledKept
<1>. QED  BY <1>1, Invariance, PTL DEF Spec, SettledIsFinal

----------------------------------------------------------------------------
\* The order of claims: a worker whose batch is full leaves behind only events that
\* come after all it took.

PresentKeys == {j \in Keys : Present(row[j])}

\* The rows have requests, and rowids that tell them apart; the next rowid is
\* larger than all of them.
Numbered ==
    /\ \A k \in PresentKeys : /\ request[k] \in Requests
                              /\ rowid[k] \in Nat
                              /\ rowid[k] <= Cardinality(PresentKeys)
    /\ \A j, k \in PresentKeys : j # k => rowid[j] # rowid[k]

\* A step that neither adds a row nor takes one.
SameRows ==
    /\ request' = request /\ rowid' = rowid
    /\ \A k \in Keys : Present(row[k])' <=> Present(row[k])

LEMMA PresentFinite ==
    IsFiniteSet(PresentKeys) /\ Cardinality(PresentKeys) \in Nat
<1>1. IsFiniteSet(PresentKeys)
  BY AgentQueueAssumption, FS_Subset DEF PresentKeys
<1>. QED  BY <1>1, FS_CardinalityType

----------------------------------------------------------------------------
\* Every step but an enqueue keeps the set of rows.

LEMMA QuietKeepsRows ==
    ASSUME Quiet, request' = request, rowid' = rowid
    PROVE  SameRows
BY DEF Quiet, SameRows, Present

LEMMA ClaimKeepsRows ==
    ASSUME IInv, NEW w \in Workers, ClaimDue(w)
    PROVE  SameRows
<1>1. \A k \in Keys : RowInv(row[k])
  BY DEF IInv
<1>2. \A k \in Batch(w) : CanClaim(row[k])
  BY DEF Batch, Due
<1>3. ASSUME NEW k \in Keys PROVE Present(row[k])' <=> Present(row[k])
  <2>1. row'[k] = IF k \in Batch(w) THEN Claimed(row[k])
                  ELSE IF k \in Scope[w] THEN Close(row[k]) ELSE row[k]
    BY DEF ClaimDue
  <2>2. CASE k \in Batch(w)
    <3>1. Claimed(row[k]).status = "leased"
      BY <1>1, <1>2, <2>2, ClaimedFacts
    <3>2. row[k].status # "absent"
      BY <1>2, <2>2 DEF CanClaim, Close, CloseExhausted, Claimable, Expired
    <3>. QED  BY <2>1, <2>2, <3>1, <3>2 DEF Present
  <2>3. CASE k \notin Batch(w)
    <3>1. Close(row[k]).status # row[k].status =>
            row[k].status = "leased" /\ Close(row[k]).status = "dead_letter"
      BY <1>1, CloseFacts
    <3>. QED  BY <2>1, <2>3, <3>1 DEF Present
  <2>. QED  BY <2>2, <2>3
<1>. QED  BY <1>3 DEF SameRows, ClaimDue

LEMMA SettleKeepsRows ==
    ASSUME IInv, NEW w \in Workers, Settle(w)
    PROVE  SameRows
<1>1. RetryStatus(row[item[w]]) # "absent" /\ outcome[w] \in Outcomes
  BY DEF RetryStatus, IInv, TypeOK
<1>2. request' = request /\ rowid' = rowid
  BY DEF Settle
<1>. QED  BY <1>1, <1>2, SettleFacts DEF SameRows, Present, Outcomes

\* Only claim_due puts a token into a worker's hands.
LEMMA StepShape ==
    ASSUME IInv, [Next]_vars
    PROVE  \/ \E k \in Keys, q \in Requests : Enqueue(k, q)
           \/ SameRows /\ (HeldShrinks \/ \E w \in Workers : ClaimDue(w))
<1>1. ASSUME NEW w \in Workers, NEW k \in Keys, StartGuard(w, k) \/ Heartbeat(w, k)
      PROVE  SameRows /\ HeldShrinks
  BY <1>1, RenewOnceStep, QuietKeepsRows DEF StartGuard, Heartbeat, HeldShrinks
<1>2. ASSUME NEW w \in Workers, NEW k \in Keys, StartHandler(w, k)
      PROVE  SameRows /\ HeldShrinks
  BY <1>2 DEF StartHandler, rows, SameRows, HeldShrinks, Present
<1>3. ASSUME NEW w \in Workers, NEW k \in Keys, SkipLost(w, k)
      PROVE  SameRows /\ HeldShrinks
  BY <1>3, FinishFacts DEF SkipLost, rows, SameRows, Present
<1>4. ASSUME NEW w \in Workers, CancelLost(w) \/ Notify(w)
      PROVE  SameRows /\ HeldShrinks
  <2>1. item[w] \in Keys
    BY <1>4 DEF CancelLost, Notify, IInv, BusyInv, Busy
  <2>. QED  BY <1>4, <2>1, FinishFacts DEF CancelLost, Notify, rows, SameRows, Present
<1>5. ASSUME NEW w \in Workers, NEW o \in Outcomes, HandlerEnds(w, o)
      PROVE  SameRows /\ HeldShrinks
  BY <1>5 DEF HandlerEnds, rows, SameRows, HeldShrinks, Present
<1>6. ASSUME NEW w \in Workers, MarkDoneRaises(w) PROVE SameRows /\ HeldShrinks
  BY <1>6 DEF MarkDoneRaises, rows, SameRows, HeldShrinks, Present
<1>7. ASSUME NEW w \in Workers, Crash(w) PROVE SameRows /\ HeldShrinks
  <2>1. HeldShrinks
    BY <1>7 DEF Crash, HeldShrinks, IInv, TypeOK
  <2>. QED  BY <1>7, <2>1 DEF Crash, rows, SameRows, Present
<1>8. ASSUME NEW w \in Workers, Settle(w) PROVE SameRows /\ HeldShrinks
  <2>1. item[w] \in Keys
    BY <1>8 DEF Settle, IInv, BusyInv, Busy
  <2>2. HeldShrinks
    BY <1>8, <2>1, FinishFacts DEF Settle, HeldShrinks
  <2>. QED  BY <1>8, <2>2, SettleKeepsRows
<1>9. CASE Tick
  <2>1. \A k \in Keys : row'[k] = Elapse(row[k]) /\ RowInv(row[k])
    BY <1>9 DEF Tick, IInv
  <2>2. \A k \in Keys : row'[k].status = row[k].status
    BY <2>1, ElapseFacts
  <2>. QED  BY <1>9, <2>2 DEF Tick, loop, SameRows, HeldShrinks, Present
<1>10. CASE UNCHANGED vars
  BY <1>10 DEF vars, rows, loop, SameRows, HeldShrinks, Present
<1>11. ASSUME NEW w \in Workers, ClaimDue(w) PROVE SameRows
  BY <1>11, ClaimKeepsRows
<1>. QED
  BY <1>1, <1>2, <1>3, <1>4, <1>5, <1>6, <1>7, <1>8, <1>9, <1>10, <1>11 DEF Next

----------------------------------------------------------------------------
\* The numbering of the rows.

LEMMA InitNumbered == Init => Numbered
BY SMT DEF Init, Numbered, PresentKeys, Present, NoRow

LEMMA EnqueueNumbered ==
    ASSUME IInv, Numbered, NEW k \in Keys, NEW q \in Requests, Enqueue(k, q)
    PROVE  Numbered'
<1>. DEFINE n == Cardinality(PresentKeys)
<1>1. n \in Nat /\ IsFiniteSet(PresentKeys)
  BY PresentFinite
<1>2. k \notin PresentKeys
  BY DEF Enqueue, PresentKeys
<1>3. PresentKeys' = PresentKeys \cup {k}
  BY DEF Enqueue, PresentKeys, Present, NewRow, IInv, TypeOK
<1>4. Cardinality(PresentKeys') = n + 1
  BY <1>1, <1>2, <1>3, FS_AddElement, SMTT(30)
<1>5. /\ rowid'[k] = n + 1 /\ request'[k] = q
      /\ \A j \in PresentKeys : rowid'[j] = rowid[j] /\ request'[j] = request[j]
  BY <1>2 DEF Enqueue, PresentKeys, IInv, TypeOK
<1>. HIDE DEF n
<1>6. \A j \in PresentKeys : /\ request[j] \in Requests
                             /\ rowid[j] \in Nat /\ rowid[j] <= n
  BY DEF Numbered, n
<1>7. \A j \in PresentKeys' : /\ request'[j] \in Requests
                              /\ rowid'[j] \in Nat
                              /\ rowid'[j] <= Cardinality(PresentKeys')
  BY <1>1, <1>3, <1>4, <1>5, <1>6, SMT
<1>8. \A i, j \in PresentKeys' : i # j => rowid'[i] # rowid'[j]
  BY <1>1, <1>3, <1>5, <1>6, SMT DEF Numbered
<1>. QED  BY <1>7, <1>8 DEF Numbered

LEMMA NextNumbered == IInv /\ Numbered /\ [Next]_vars => Numbered'
<1>. SUFFICES ASSUME IInv, Numbered, [Next]_vars PROVE Numbered'
  OBVIOUS
<1>1. CASE SameRows
  <2>1. PresentKeys' = PresentKeys
    BY <1>1 DEF SameRows, PresentKeys
  <2>. QED  BY <1>1, <2>1 DEF SameRows, Numbered
<1>. QED  BY <1>1, StepShape, EnqueueNumbered

----------------------------------------------------------------------------
\* The batch of a claim.

\* Numbered rows are totally ordered by claim order.
LEMMA BeforeIsOrder ==
    ASSUME Numbered, NEW i \in PresentKeys, NEW j \in PresentKeys, NEW k \in PresentKeys
    PROVE  /\ j # k => Before(j, k) \/ Before(k, j)
           /\ Before(i, j) /\ Before(j, k) => Before(i, k)
<1>1. \A x \in PresentKeys : request[x].priority \in Nat /\ rowid[x] \in Nat
  BY AgentQueueAssumption DEF Numbered
<1>2. j # k => rowid[j] # rowid[k]
  BY DEF Numbered
<1>. QED  BY <1>1, <1>2, SMT DEF Before

LEMMA DueFacts ==
    ASSUME NEW w \in Workers
    PROVE  Due(w) \subseteq PresentKeys /\ IsFiniteSet(Due(w))
<1>1. Due(w) \subseteq PresentKeys
  BY AgentQueueAssumption DEF Due, CanClaim, Close, CloseExhausted, Claimable, Expired,
                              PresentKeys, Present
<1>. QED  BY <1>1, PresentFinite, FS_Subset

\* What is left out of a batch comes after all that is in it: were it before
\* one of them, fewer than Limit rows would be before it, too.
LEMMA BatchIsPrefix ==
    ASSUME Numbered, NEW w \in Workers, NEW k \in Batch(w), NEW j \in Due(w) \ Batch(w)
    PROVE  Before(k, j)
<1>. SUFFICES ASSUME ~Before(k, j) PROVE FALSE
  OBVIOUS
<1>. DEFINE Ahead(x) == {i \in Due(w) : Before(i, x)}
<1>1. k \in Due(w) /\ Cardinality(Ahead(k)) < Limit /\ ~(Cardinality(Ahead(j)) < Limit)
  BY DEF Batch
<1>2. Before(j, k)
  BY <1>1, BeforeIsOrder, DueFacts
<1>3. Ahead(j) \subseteq Ahead(k)
  BY <1>1, <1>2, BeforeIsOrder, DueFacts
<1>4. IsFiniteSet(Ahead(k)) /\ IsFiniteSet(Ahead(j))
  BY DueFacts, FS_Subset
<1>. HIDE DEF Ahead
<1>5. Cardinality(Ahead(j)) <= Cardinality(Ahead(k))
  BY <1>3, <1>4, FS_Subset
<1>6. Cardinality(Ahead(j)) \in Nat /\ Cardinality(Ahead(k)) \in Nat /\ Limit \in Nat
  BY <1>4, FS_CardinalityType, AgentQueueAssumption
<1>. QED  BY <1>1, <1>5, <1>6, SMT

\* A claim_due that leaves a due event of its scope behind takes nothing of a
\* larger priority value, nor of the same priority and younger.
THEOREM ClaimsAreOrdered == Spec => ClaimsInOrder
<1>1. Spec => []Numbered
  BY InitNumbered, NextNumbered, Invariance, PTL DEF Spec
<1>2. ASSUME IInv, Numbered, [Next]_vars
      PROVE  \A w \in Workers, j, k \in Keys :
               /\ held[w][k] = 0 /\ held'[w][k] # 0
               /\ j \in Due(w) /\ held'[w][j] = 0
               => \/ request[k].priority < request[j].priority
                  \/ request[k].priority = request[j].priority /\ rowid[k] < rowid[j]
  <2>. SUFFICES ASSUME NEW w \in Workers, NEW j \in Keys, NEW k \in Keys,
                       held[w][k] = 0, held'[w][k] # 0, j \in Due(w), held'[w][j] = 0
                PROVE  Before(k, j)
    BY DEF Before
  <2>1. ~HeldShrinks
    BY DEF HeldShrinks
  <2>2. ~\E x \in Keys, q \in Requests : Enqueue(x, q)
    BY DEF Enqueue, loop
  <2>3. PICK v \in Workers : ClaimDue(v)
    BY <1>2, <2>1, <2>2, StepShape
  <2>4. v = w
    BY <1>2, <2>3 DEF ClaimDue, IInv, TypeOK
  <2>5. \A x \in Keys : held'[w][x] = IF x \in Batch(w) THEN Claimed(row[x]).token ELSE 0
    BY <1>2, <2>3, <2>4 DEF ClaimDue, IInv, TypeOK
  <2>6. k \in Batch(w)
    BY <2>5
  <2>7. j \notin Batch(w)
    <3>. SUFFICES ASSUME j \in Batch(w) PROVE FALSE
      OBVIOUS
    <3>1. RowInv(row[j]) /\ CanClaim(row[j])
      BY <1>2 DEF IInv, Batch, Due
    <3>2. Claimed(row[j]).token = row[j].attempts + 1 /\ row[j].attempts \in Nat
      BY <3>1, ClaimedFacts DEF RowInv, EventRow
    <3>. QED  BY <2>5, <3>2, SMT
  <2>. QED  BY <1>2, <2>6, <2>7, BatchIsPrefix
<1>. QED  BY <1>1, <1>2, Invariance, PTL DEF Spec, ClaimsInOrder

----------------------------------------------------------------------------
\* The execution of actions, whose events the queue hands out (ActionExecution): for any
\* number of workers and of operators' requests, any attempt limit, lease, backoff and
\* executor results.  The stage of its workers has a name of its own here.

CONSTANTS ExecuteKey, RequestKeys, Results, MaxAbandons, ClaimBound, NoEvent
VARIABLES action, errored, ev, audit, doing, event, token, abandons, open, excused, overlapped

A == INSTANCE ActionExecution WITH stage <- doing

\* The action can still be, or become, one that a worker starts.
Startables == {"absent", "pending", "approved", "queued"}

\* The worker has marked the action executing and not yet written the outcome.
Owner(w) == doing[w] \in {"calling", "handoff", "executed", "failing", "retryable"}

NoReplay == \A r \in RequestKeys : audit[r] # "not_executed"

ExecutorInv == \A w \in Workers :
    /\ doing[w] # "idle" => event[w] \in A!Events
    /\ doing[w] \in {"begin", "calling"} => token[w] <= MaxAttempts

\* As long as no operator had the action executed again, whoever marked it executing is
\* alone with it, and it cannot be started.
OwnerInv == NoReplay => \A w \in Workers : Owner(w) =>
    action \notin Startables /\ \A v \in Workers : Owner(v) => v = w

\* As long as nothing excuses another call, only the call of the owner may have had its
\* effect, and what goes back to the queue had none.
OpenInv == ~excused =>
    /\ NoReplay
    /\ action \in Startables => open = {}
    /\ \A w \in Workers :
         /\ doing[w] = "calling" => open \subseteq {<<event[w], token[w]>>}
         /\ doing[w] = "retryable" => open = {}
         /\ doing[w] # "handoff"

ActionInv == A!TypeOK /\ ExecutorInv /\ OwnerInv /\ OpenInv

----------------------------------------------------------------------------
\* The event rows keep their type.

LEMMA ReleasedTyped ==
    ASSUME NEW r \in A!EventRow, NEW s \in A!RowStatus
    PROVE  A!Released(r, s) \in A!EventRow
BY DEF A!Released, A!EventRow

LEMMA RowTypes ==
    ASSUME A!ActionExecutionAssumption, NEW r \in A!EventRow, NEW t \in Nat
    PROVE  /\ A!NoRow \in A!EventRow /\ A!NewRow(0) \in A!EventRow
           /\ A!Claimed(r) \in A!EventRow /\ A!Claimed(r).token \in Nat
           /\ A!RenewLease(r, t) \in A!EventRow /\ A!Elapse(r) \in A!EventRow
           /\ A!MarkDone(r, t) \in A!EventRow
           /\ A!MarkRetry(r, t, RetryBackoff) \in A!EventRow
<1>1. LeaseSeconds \in Nat /\ RetryBackoff \in Nat
  BY EventRowAssumption, SMT DEF A!ActionExecutionAssumption
<1>2. A!NoRow \in A!EventRow /\ A!NewRow(0) \in A!EventRow
  BY SMT DEF A!NoRow, A!NewRow, A!EventRow, A!RowStatus
<1>3. A!Claimed(r) \in A!EventRow /\ A!Claimed(r).token \in Nat
  <2>1. r.attempts \in Nat /\ r.attempts + 1 \in Nat
    BY SMT DEF A!EventRow
  <2>2. "leased" \in A!RowStatus
    BY DEF A!RowStatus
  <2>. QED  BY <1>1, <2>1, <2>2 DEF A!Claimed, A!EventRow
<1>4. A!RenewLease(r, t) \in A!EventRow
  BY <1>1, SMT DEF A!RenewLease, A!EventRow
<1>5. A!Elapse(r) \in A!EventRow
  <2>1. A!Countdown(r.wait) \in Nat /\ A!Countdown(r.lease) \in Nat
    BY SMT DEF A!Countdown, A!EventRow
  <2>. QED  BY <2>1 DEF A!Elapse, A!EventRow
<1>6. A!MarkDone(r, t) \in A!EventRow
  BY ReleasedTyped DEF A!MarkDone, A!RowStatus, A!Settled
<1>7. A!MarkRetry(r, t, RetryBackoff) \in A!EventRow
  <2>. DEFINE q == A!Released(r, A!RetryStatus(r))
  <2>1. q \in A!EventRow
    BY ReleasedTyped DEF A!RetryStatus, A!RowStatus, A!Settled
  <2>. HIDE DEF q
  <2>2. [q EXCEPT !.wait = RetryBackoff] \in A!EventRow
    BY <1>1, <2>1, SMT DEF A!EventRow
  <2>. QED  BY <2>2 DEF A!MarkRetry, q
<1>. QED  BY <1>2, <1>3, <1>4, <1>5, <1>6, <1>7

LEMMA EnqueuedTyped ==
    ASSUME A!TypeOK, NEW e \in A!Events
    PROVE  A!Enqueued(e) \in [A!Events -> A!EventRow]
<1>1. ev \in [A!Events -> A!EventRow] /\ A!NewRow(0) \in A!EventRow
  BY SMT DEF A!TypeOK, A!NewRow, A!EventRow, A!RowStatus
<1>. QED  BY <1>1 DEF A!Enqueued

----------------------------------------------------------------------------
\* The invariant holds initially and is preserved by every action.

LEMMA ActionInitInv == ASSUME A!ActionExecutionAssumption, A!Init PROVE ActionInv
<1>1. A!TypeOK
  <2>1. A!NoRow \in A!EventRow
    BY SMT DEF A!NoRow, A!EventRow, A!RowStatus
  <2>2. 0 \in Nat /\ abandons \in 0 .. MaxAbandons
    BY SMT DEF A!ActionExecutionAssumption, A!Init
  <2>. QED  BY <2>1, <2>2 DEF A!Init, A!TypeOK, A!ActionStatus, A!Stages
<1>2. ExecutorInv /\ OwnerInv /\ OpenInv
  BY DEF A!Init, ExecutorInv, OwnerInv, OpenInv, Owner, NoReplay
<1>. QED  BY <1>1, <1>2 DEF ActionInv

\* A worker that keeps its place, or is at none that owns the action.
WorkerStays(w) == doing'[w] = doing[w] /\ event'[w] = event[w] /\ token'[w] = token[w]
Disowned(w) == doing'[w] \in {"idle", "claimed", "begin", "uncertain", "exhausted",
                              "recheck", "release", "done"}

\* Steps that start no call, end none and return nothing to the queue.
LEMMA QuietInv ==
    ASSUME ActionInv, A!TypeOK', ExecutorInv',
           action' \in Startables => action \in Startables,
           \A r \in RequestKeys : audit'[r] = "not_executed" <=> audit[r] = "not_executed",
           \A w \in Workers : WorkerStays(w) \/ Disowned(w),
           UNCHANGED <<open, excused>>
    PROVE  ActionInv'
<1>1. NoReplay' <=> NoReplay
  BY DEF NoReplay
<1>2. \A w \in Workers : Owner(w)' => Owner(w) /\ WorkerStays(w)
  BY DEF Owner, WorkerStays, Disowned
<1>3. OwnerInv'
  BY <1>1, <1>2 DEF ActionInv, OwnerInv
<1>4. OpenInv'
  <2>1. \A w \in Workers : doing'[w] \in {"calling", "retryable", "handoff"} => WorkerStays(w)
    BY DEF Disowned
  <2>. QED  BY <1>1, <2>1 DEF ActionInv, OpenInv, WorkerStays
<1>. QED  BY <1>3, <1>4 DEF ActionInv

LEMMA SameWorkers ==
    ASSUME ActionInv, UNCHANGED A!worker
    PROVE  /\ ExecutorInv' /\ \A w \in Workers : WorkerStays(w)
           /\ UNCHANGED <<doing, event, token>>
<1>1. UNCHANGED <<doing, event, token>>
  BY DEF A!worker
<1>. QED  BY <1>1 DEF ActionInv, ExecutorInv, WorkerStays

\* Creation, approval and denial.
LEMMA CreationInv ==
    ASSUME ActionInv, A!Approve \/ A!Deny \/ \E p \in {"auto", "manual"} : A!InsertAction(p)
    PROVE  ActionInv'
<1>1. /\ action \in Startables /\ action' \in {"approved", "pending", "denied"}
      /\ ev' = A!Enqueued(ExecuteKey) \/ ev' = ev
      /\ UNCHANGED <<errored, audit, A!worker, abandons, open, excused, overlapped>>
  BY DEF A!Approve, A!Deny, A!InsertAction, Startables
<1>2. ExecutorInv' /\ (\A w \in Workers : WorkerStays(w)) /\ UNCHANGED <<doing, event, token>>
  BY <1>1, SameWorkers
<1>3. A!TypeOK'
  <2>1. ev' \in [A!Events -> A!EventRow]
    BY <1>1, EnqueuedTyped DEF ActionInv, A!TypeOK, A!Events
  <2>2. action' \in A!ActionStatus
    BY <1>1 DEF A!ActionStatus, A!Terminal
  <2>. QED  BY <1>1, <1>2, <2>1, <2>2 DEF ActionInv, A!TypeOK
<1>. QED  BY <1>1, <1>2, <1>3, QuietInv

LEMMA DownstreamInv ==
    ASSUME ActionInv, NEW s \in {"executed", "failed"}, A!Downstream(s)
    PROVE  ActionInv'
<1>1. /\ action' = s /\ errored' = (s = "failed")
      /\ UNCHANGED <<ev, audit, A!worker, abandons, open, excused, overlapped>>
  BY DEF A!Downstream
<1>2. ExecutorInv' /\ (\A w \in Workers : WorkerStays(w)) /\ UNCHANGED <<doing, event, token>>
  BY <1>1, SameWorkers
<1>3. A!TypeOK'
  <2>1. action' \in A!ActionStatus /\ errored' \in BOOLEAN
    BY <1>1 DEF A!ActionStatus, A!Terminal
  <2>. QED  BY <1>1, <1>2, <2>1 DEF ActionInv, A!TypeOK
<1>4. action' \notin Startables
  BY <1>1 DEF Startables
<1>. QED  BY <1>1, <1>2, <1>3, <1>4, QuietInv

\* The operator's resolution; after not_executed another call is excused.
LEMMA ResolveActionInv ==
    ASSUME ActionInv, NEW r \in RequestKeys, NEW x \in A!Resolutions, A!ResolveAction(r, x)
    PROVE  ActionInv'
<1>1. /\ audit[r] = "none"
      /\ audit' = [audit EXCEPT ![r] = x]
      /\ action' = IF x = "not_executed" THEN "approved" ELSE x
      /\ errored' = (x = "failed")
      /\ ev' = IF x = "not_executed" THEN A!Enqueued(r) ELSE ev
      /\ open' = IF x = "not_executed" THEN {} ELSE open
      /\ excused' = (excused \/ x = "not_executed")
      /\ UNCHANGED <<A!worker, abandons, overlapped>>
  BY DEF A!ResolveAction
<1>2. ExecutorInv' /\ (\A w \in Workers : WorkerStays(w)) /\ UNCHANGED <<doing, event, token>>
  BY <1>1, SameWorkers
<1>3. A!TypeOK'
  <2>1. ev' \in [A!Events -> A!EventRow]
    BY <1>1, EnqueuedTyped DEF ActionInv, A!TypeOK, A!Events
  <2>2. action' \in A!ActionStatus /\ errored' \in BOOLEAN /\ excused' \in BOOLEAN
    BY <1>1 DEF A!ActionStatus, A!Terminal, A!Resolutions
  <2>3. audit' \in [RequestKeys -> A!Resolutions \cup {"none"}]
    BY <1>1 DEF ActionInv, A!TypeOK
  <2>4. open' \in SUBSET (A!Events \X Nat)
    BY <1>1 DEF ActionInv, A!TypeOK
  <2>. QED  BY <1>1, <1>2, <2>1, <2>2, <2>3, <2>4 DEF ActionInv, A!TypeOK
<1>4. audit'[r] = x /\ \A k \in RequestKeys : k # r => audit'[k] = audit[k]
  BY <1>1 DEF ActionInv, A!TypeOK
<1>5. CASE x = "not_executed"
  <2>1. excused' /\ ~NoReplay'
    BY <1>1, <1>4, <1>5 DEF NoReplay
  <2>. QED  BY <1>2, <1>3, <2>1 DEF ActionInv, OwnerInv, OpenInv
<1>6. CASE x # "not_executed"
  <2>1. action' \notin Startables /\ open' = open
    BY <1>1, <1>6 DEF A!Resolutions, Startables
  <2>2. excused' = excused
    BY <1>1, <1>6 DEF ActionInv, A!TypeOK
  <2>3. \A k \in RequestKeys : audit'[k] = "not_executed" <=> audit[k] = "not_executed"
    BY <1>1, <1>4, <1>6
  <2>. QED  BY <1>2, <1>3, <2>1, <2>2, <2>3, QuietInv
<1>. QED  BY <1>5, <1>6

\* One worker moves; the other workers keep their places.
LEMMA GotoFacts ==
    ASSUME ActionInv, NEW w \in Workers, NEW s \in A!Stages, A!Goto(w, s), UNCHANGED <<event, token>>
    PROVE  /\ doing' \in [Workers -> A!Stages] /\ doing'[w] = s
           /\ event'[w] = event[w] /\ token'[w] = token[w]
           /\ \A v \in Workers : v # w => WorkerStays(v)
BY DEF ActionInv, A!TypeOK, A!Goto, WorkerStays

LEMMA LeaveFacts ==
    ASSUME ActionInv, NEW w \in Workers, A!Leave(w)
    PROVE  /\ doing' \in [Workers -> A!Stages] /\ token' \in [Workers -> Nat]
           /\ event' \in [Workers -> A!Events \cup {NoEvent}]
           /\ ExecutorInv'
           /\ \A v \in Workers : WorkerStays(v) \/ Disowned(v)
<1>1. /\ doing' = [doing EXCEPT ![w] = "idle"] /\ event' = [event EXCEPT ![w] = NoEvent]
      /\ token' = [token EXCEPT ![w] = 0]
  BY DEF A!Leave
<1>2. /\ doing \in [Workers -> A!Stages] /\ token \in [Workers -> Nat]
      /\ event \in [Workers -> A!Events \cup {NoEvent}] /\ "idle" \in A!Stages /\ 0 \in Nat
  BY DEF ActionInv, A!TypeOK, A!Stages
<1>3. \A v \in Workers : \/ v = w /\ doing'[v] = "idle"
                         \/ v # w /\ WorkerStays(v)
  BY <1>1, <1>2 DEF WorkerStays
<1>4. ExecutorInv'
  BY <1>3 DEF ActionInv, ExecutorInv, WorkerStays
<1>5. \A v \in Workers : WorkerStays(v) \/ Disowned(v)
  BY <1>3 DEF Disowned
<1>. QED  BY <1>1, <1>2, <1>4, <1>5

LEMMA ClaimInv ==
    ASSUME A!ActionExecutionAssumption, ActionInv, NEW w \in Workers, NEW e \in A!Events, A!Claim(w, e)
    PROVE  ActionInv'
<1>1. /\ ev' = [ev EXCEPT ![e] = A!Claimed(ev[e])]
      /\ doing' = [doing EXCEPT ![w] = "claimed"] /\ event' = [event EXCEPT ![w] = e]
      /\ token' = [token EXCEPT ![w] = A!Claimed(ev[e]).token]
      /\ overlapped' = (overlapped \/ \E v \in Workers : event[v] = e)
      /\ UNCHANGED <<action, errored, audit, abandons, open, excused>>
  BY DEF A!Claim
<1>2. /\ doing \in [Workers -> A!Stages] /\ token \in [Workers -> Nat] /\ ev \in [A!Events -> A!EventRow]
      /\ event \in [Workers -> A!Events \cup {NoEvent}] /\ "claimed" \in A!Stages
      /\ 0 \in Nat
  BY DEF ActionInv, A!TypeOK, A!Stages
<1>3. A!Claimed(ev[e]) \in A!EventRow /\ A!Claimed(ev[e]).token \in Nat
  BY <1>2, RowTypes
<1>4. A!TypeOK'
  <2>1. ev' \in [A!Events -> A!EventRow] /\ token' \in [Workers -> Nat]
    BY <1>1, <1>2, <1>3
  <2>2. doing' \in [Workers -> A!Stages] /\ event' \in [Workers -> A!Events \cup {NoEvent}]
    BY <1>1, <1>2
  <2>3. overlapped' \in BOOLEAN
    BY <1>1
  <2>. QED  BY <1>1, <2>1, <2>2, <2>3 DEF ActionInv, A!TypeOK
<1>5. \A v \in Workers : \/ v = w /\ doing'[v] = "claimed" /\ event'[v] = e
                         \/ v # w /\ WorkerStays(v)
  BY <1>1, <1>2 DEF WorkerStays
<1>6. ExecutorInv'
  BY <1>5 DEF ActionInv, ExecutorInv, WorkerStays
<1>7. \A v \in Workers : WorkerStays(v) \/ Disowned(v)
  BY <1>5 DEF Disowned
<1>. QED  BY <1>1, <1>4, <1>6, <1>7, QuietInv

LEMMA EventRowsInv ==
    ASSUME A!ActionExecutionAssumption, ActionInv, A!Tick \/ \E w \in Workers : A!Heartbeat(w)
    PROVE  ActionInv'
<1>1. UNCHANGED <<action, errored, audit, A!worker, abandons, open, excused, overlapped>>
  BY DEF A!Tick, A!Heartbeat
<1>2. ExecutorInv' /\ (\A w \in Workers : WorkerStays(w)) /\ UNCHANGED <<doing, event, token>>
  BY <1>1, SameWorkers
<1>3. ev \in [A!Events -> A!EventRow] /\ token \in [Workers -> Nat] /\ 0 \in Nat
  BY DEF ActionInv, A!TypeOK
<1>4. ev' \in [A!Events -> A!EventRow]
  <2>1. CASE A!Tick
    BY <1>3, <2>1, RowTypes DEF A!Tick
  <2>2. ASSUME NEW w \in Workers, A!Heartbeat(w) PROVE ev' \in [A!Events -> A!EventRow]
    <3>1. event[w] \in A!Events
      BY <2>2 DEF A!Heartbeat, ActionInv, ExecutorInv
    <3>2. A!RenewLease(ev[event[w]], token[w]) \in A!EventRow
      BY <1>3, <3>1, RowTypes
    <3>. QED  BY <1>3, <2>2, <3>1, <3>2 DEF A!Heartbeat
  <2>. QED  BY <2>1, <2>2
<1>5. A!TypeOK'
  BY <1>1, <1>2, <1>4 DEF ActionInv, A!TypeOK
<1>. QED  BY <1>1, <1>2, <1>5, QuietInv

LEMMA AbandonInv ==
    ASSUME A!ActionExecutionAssumption, ActionInv, NEW w \in Workers, A!Abandon(w)
    PROVE  ActionInv'
<1>1. /\ A!Leave(w) /\ abandons < MaxAbandons /\ abandons' = abandons + 1
      /\ UNCHANGED <<action, errored, ev, audit, open, excused, overlapped>>
  BY DEF A!Abandon
<1>2. abandons' \in 0 .. MaxAbandons
  BY <1>1, SMT DEF A!ActionExecutionAssumption, ActionInv, A!TypeOK
<1>3. A!TypeOK'
  BY <1>1, <1>2, LeaveFacts DEF ActionInv, A!TypeOK
<1>. QED  BY <1>1, <1>3, LeaveFacts, QuietInv

LEMMA RecheckInv ==
    ASSUME ActionInv, NEW w \in Workers, A!Recheck(w)
    PROVE  ActionInv'
<1>1. /\ A!Leave(w) \/ (A!Goto(w, "done") /\ UNCHANGED <<event, token>>)
      /\ doing[w] = "recheck"
      /\ UNCHANGED <<action, errored, ev, audit, abandons, open, excused, overlapped>>
  BY DEF A!Recheck
<1>2. CASE A!Leave(w)
  <2>1. A!TypeOK'
    BY <1>1, <1>2, LeaveFacts DEF ActionInv, A!TypeOK
  <2>. QED  BY <1>1, <1>2, <2>1, LeaveFacts, QuietInv
<1>3. CASE A!Goto(w, "done") /\ UNCHANGED <<event, token>>
  <2>1. /\ doing' \in [Workers -> A!Stages] /\ doing'[w] = "done"
        /\ event'[w] = event[w] /\ token'[w] = token[w]
        /\ \A v \in Workers : v # w => WorkerStays(v)
    BY <1>3, GotoFacts DEF A!Stages
  <2>2. A!TypeOK'
    BY <1>1, <1>3, <2>1 DEF ActionInv, A!TypeOK
  <2>3. ExecutorInv'
    BY <1>1, <2>1 DEF ActionInv, ExecutorInv, WorkerStays
  <2>4. \A v \in Workers : WorkerStays(v) \/ Disowned(v)
    BY <2>1 DEF Disowned
  <2>. QED  BY <1>1, <2>2, <2>3, <2>4, QuietInv
<1>. QED  BY <1>1, <1>2, <1>3

LEMMA SettleEventInv ==
    ASSUME A!ActionExecutionAssumption, ActionInv, NEW w \in Workers, A!SettleEvent(w)
    PROVE  ActionInv'
<1>1. /\ doing[w] \in {"done", "release"}
      /\ \/ ev' = [ev EXCEPT ![event[w]] = A!MarkDone(ev[event[w]], token[w])]
         \/ ev' = [ev EXCEPT ![event[w]] = A!MarkRetry(ev[event[w]], token[w], RetryBackoff)]
      /\ A!Leave(w)
      /\ UNCHANGED <<action, errored, audit, abandons, open, excused, overlapped>>
  BY DEF A!SettleEvent
<1>2. ev \in [A!Events -> A!EventRow] /\ token \in [Workers -> Nat] /\ event[w] \in A!Events
  BY <1>1 DEF ActionInv, A!TypeOK, ExecutorInv
<1>3. /\ A!MarkDone(ev[event[w]], token[w]) \in A!EventRow
      /\ A!MarkRetry(ev[event[w]], token[w], RetryBackoff) \in A!EventRow
  BY <1>2, RowTypes
<1>4. ev' \in [A!Events -> A!EventRow]
  BY <1>1, <1>2, <1>3
<1>5. A!TypeOK'
  BY <1>1, <1>4, LeaveFacts DEF ActionInv, A!TypeOK
<1>. QED  BY <1>1, <1>5, LeaveFacts, QuietInv

LEMMA LoadInv ==
    ASSUME ActionInv, NEW w \in Workers, A!Load(w)
    PROVE  ActionInv'
<1>1. /\ doing[w] = "claimed" /\ A!Goto(w, A!Route(w))
      /\ UNCHANGED <<action, errored, ev, audit, event, token, abandons, open, excused, overlapped>>
  BY DEF A!Load
<1>2. /\ A!Route(w) \in {"done", "uncertain", "exhausted", "begin"}
      /\ A!Route(w) = "begin" => ~(token[w] > MaxAttempts)
  BY DEF A!Route
<1>3. A!Route(w) = "begin" => token[w] <= MaxAttempts
  BY <1>2, EventRowAssumption, SMT DEF ActionInv, A!TypeOK
<1>4. /\ doing' \in [Workers -> A!Stages] /\ doing'[w] = A!Route(w)
      /\ event'[w] = event[w] /\ token'[w] = token[w]
      /\ \A v \in Workers : v # w => WorkerStays(v)
  BY <1>1, <1>2, GotoFacts DEF A!Stages
<1>5. A!TypeOK'
  BY <1>1, <1>4 DEF ActionInv, A!TypeOK
<1>6. ExecutorInv'
  <2>1. event[w] \in A!Events
    BY <1>1 DEF ActionInv, ExecutorInv
  <2>. QED  BY <1>2, <1>3, <1>4, <2>1 DEF ActionInv, ExecutorInv, WorkerStays
<1>7. \A v \in Workers : WorkerStays(v) \/ Disowned(v)
  BY <1>2, <1>4 DEF Disowned
<1>. QED  BY <1>1, <1>5, <1>6, <1>7, QuietInv

\* mark_executing takes the action only from a status in which nobody owns it.
LEMMA MarkExecutingInv ==
    ASSUME ActionInv, NEW w \in Workers, A!MarkExecuting(w)
    PROVE  ActionInv'
<1>1. /\ doing[w] = "begin"
      /\ action' = IF A!Startable THEN "executing" ELSE action
      /\ \/ ~A!Startable /\ A!Goto(w, "done") /\ open' = open
         \/ A!Startable /\ A!Goto(w, "calling") /\ open' = open \cup {<<event[w], token[w]>>}
         \/ A!Startable /\ A!Goto(w, "failing") /\ open' = open
      /\ UNCHANGED <<errored, ev, audit, event, token, abandons, excused, overlapped>>
  BY DEF A!MarkExecuting
<1>2. event[w] \in A!Events /\ token[w] <= MaxAttempts /\ token[w] \in Nat
  BY <1>1 DEF ActionInv, ExecutorInv, A!TypeOK
<1>3. PICK s \in {"done", "calling", "failing"} : A!Goto(w, s)
  BY <1>1
<1>4. /\ doing' \in [Workers -> A!Stages] /\ doing'[w] = s
      /\ event'[w] = event[w] /\ token'[w] = token[w]
      /\ \A v \in Workers : v # w => WorkerStays(v)
  BY <1>1, <1>3, GotoFacts DEF A!Stages
<1>5. A!TypeOK'
  <2>1. action' \in A!ActionStatus
    BY <1>1 DEF ActionInv, A!TypeOK, A!ActionStatus
  <2>2. open' \in SUBSET (A!Events \X Nat)
    <3>1. <<event[w], token[w]>> \in A!Events \X Nat /\ open \in SUBSET (A!Events \X Nat)
      BY <1>2 DEF ActionInv, A!TypeOK
    <3>. QED  BY <1>1, <3>1
  <2>. QED  BY <1>1, <1>4, <2>1, <2>2 DEF ActionInv, A!TypeOK
<1>6. ExecutorInv'
  BY <1>2, <1>4 DEF ActionInv, ExecutorInv, WorkerStays
<1>7. CASE ~A!Startable
  <2>1. doing'[w] = "done" /\ action' = action /\ open' = open
    <3>1. A!Goto(w, "done") /\ action' = action /\ open' = open
      BY <1>1, <1>7
    <3>. QED  BY <1>1, <3>1, GotoFacts DEF A!Stages
  <2>2. \A v \in Workers : WorkerStays(v) \/ Disowned(v)
    BY <1>4, <2>1 DEF Disowned
  <2>. QED  BY <1>1, <1>5, <1>6, <2>1, <2>2, QuietInv
<1>8. CASE A!Startable
  <2>1. action \in Startables /\ action' = "executing" /\ action' \notin Startables
    BY <1>1, <1>8 DEF A!Startable, Startables
  <2>2. NoReplay' <=> NoReplay
    BY <1>1 DEF NoReplay
  <2>3. NoReplay => \A v \in Workers : ~Owner(v)
    BY <2>1 DEF ActionInv, OwnerInv
  <2>4. OwnerInv'
    <3>1. NoReplay => \A v \in Workers : Owner(v)' => v = w
      BY <1>4, <2>3 DEF Owner, WorkerStays
    <3>. QED  BY <2>1, <2>2, <3>1 DEF OwnerInv
  <2>5. ASSUME ~excused'
        PROVE  /\ NoReplay'
               /\ \A v \in Workers :
                    /\ doing'[v] = "calling" => open' \subseteq {<<event'[v], token'[v]>>}
                    /\ doing'[v] = "retryable" => open' = {}
                    /\ doing'[v] # "handoff"
    <3>1. ~excused /\ NoReplay /\ open = {}
      BY <1>1, <2>1, <2>5 DEF ActionInv, OpenInv
    <3>2. open' \subseteq {<<event'[w], token'[w]>>}
      BY <1>1, <1>4, <3>1
    <3>3. \A v \in Workers : doing'[v] \in {"calling", "retryable", "handoff"} =>
            v = w /\ doing'[v] = "calling"
      BY <1>4, <2>3, <3>1 DEF Owner, WorkerStays
    <3>. QED  BY <2>2, <3>1, <3>2, <3>3
  <2>6. OpenInv'
    BY <2>1, <2>5 DEF OpenInv
  <2>. QED  BY <1>5, <1>6, <2>4, <2>6 DEF ActionInv
<1>. QED  BY <1>7, <1>8

LEMMA ExecutorEndsInv ==
    ASSUME A!ActionExecutionAssumption, ActionInv, NEW w \in Workers, NEW r \in Results, A!ExecutorEnds(w, r)
    PROVE  ActionInv'
<1>1. /\ doing[w] = "calling"
      /\ r \in Results \ {"unregistered"}
      /\ A!Goto(w, A!AfterCall(w, r))
      /\ open' = IF r \in {"not_started", "retryable_failure", "permanent_failure"}
                 THEN open \ {<<event[w], token[w]>>} ELSE open
      /\ excused' = (excused \/ r = "queued")
      /\ UNCHANGED <<action, errored, ev, audit, event, token, abandons, overlapped>>
  BY DEF A!ExecutorEnds
<1>2. r \in A!AllResults
  BY DEF A!ActionExecutionAssumption
<1>3. /\ A!AfterCall(w, r) \in {"handoff", "executed", "failing", "uncertain", "exhausted", "retryable"}
      /\ A!AfterCall(w, r) = "handoff" => r = "queued"
      /\ A!AfterCall(w, r) = "retryable" => r \in {"not_started", "retryable_failure"}
  BY <1>1, <1>2 DEF A!AfterCall, A!AllResults
<1>4. /\ doing' \in [Workers -> A!Stages] /\ doing'[w] = A!AfterCall(w, r)
      /\ event'[w] = event[w] /\ token'[w] = token[w]
      /\ \A v \in Workers : v # w => WorkerStays(v)
  BY <1>1, <1>3, GotoFacts DEF A!Stages
<1>5. A!TypeOK'
  <2>1. open' \in SUBSET (A!Events \X Nat)
    BY <1>1 DEF ActionInv, A!TypeOK
  <2>2. excused' \in BOOLEAN
    BY <1>1
  <2>. QED  BY <1>1, <1>4, <2>1, <2>2 DEF ActionInv, A!TypeOK
<1>6. ExecutorInv'
  <2>1. event[w] \in A!Events
    BY <1>1 DEF ActionInv, ExecutorInv
  <2>. QED  BY <1>3, <1>4, <2>1 DEF ActionInv, ExecutorInv, WorkerStays
<1>7. Owner(w) /\ \A v \in Workers : Owner(v)' => Owner(v)
  BY <1>1, <1>4 DEF Owner, WorkerStays
<1>8. NoReplay' <=> NoReplay
  BY <1>1 DEF NoReplay
<1>9. OwnerInv'
  BY <1>1, <1>7, <1>8 DEF ActionInv, OwnerInv
<1>10. ASSUME ~excused'
       PROVE  /\ NoReplay'
              /\ action' \in Startables => open' = {}
              /\ \A v \in Workers :
                   /\ doing'[v] = "calling" => open' \subseteq {<<event'[v], token'[v]>>}
                   /\ doing'[v] = "retryable" => open' = {}
                   /\ doing'[v] # "handoff"
  <2>1. ~excused /\ r # "queued" /\ NoReplay /\ open \subseteq {<<event[w], token[w]>>}
    BY <1>1, <1>10 DEF ActionInv, OpenInv
  <2>2. action \notin Startables /\ \A v \in Workers : Owner(v) => v = w
    BY <1>7, <2>1 DEF ActionInv, OwnerInv
  <2>3. \A v \in Workers : doing'[v] \in {"calling", "retryable", "handoff"} =>
          v = w /\ doing'[v] = "retryable"
    BY <1>3, <1>4, <1>7, <2>1, <2>2 DEF Owner
  <2>4. doing'[w] = "retryable" => open' = {}
    BY <1>1, <1>3, <1>4, <2>1
  <2>. QED  BY <1>1, <1>8, <2>1, <2>2, <2>3, <2>4
<1>11. OpenInv'
  BY <1>10 DEF OpenInv
<1>. QED  BY <1>5, <1>6, <1>9, <1>11 DEF ActionInv

\* What a write of the worker can change the action to, and from what.
LEMMA WriteFacts ==
    ASSUME NEW s \in {"handoff", "executed", "failing", "uncertain", "retryable", "exhausted"}
    PROVE  LET u == A!WriteOf(s)
           IN  /\ u.from \subseteq {"approved", "executing", "queued"}
               /\ u.to \in {"queued", "executed", "failed", "uncertain"}
               /\ u.to = "queued" => s \in {"handoff", "retryable"} /\ u.from = {"executing"}
               /\ u.then \in {"done", "release"} /\ u.else \in {"done", "recheck"}
               /\ u.err \in {TRUE, FALSE, errored}
BY DEF A!WriteOf, A!Write

LEMMA WriteActionInv ==
    ASSUME ActionInv, NEW w \in Workers, A!WriteAction(w)
    PROVE  ActionInv'
<1>. DEFINE u == A!WriteOf(doing[w])
<1>1. /\ doing[w] \in {"handoff", "executed", "failing", "uncertain", "retryable", "exhausted"}
      /\ action' = IF action \in u.from THEN u.to ELSE action
      /\ errored' = IF action \in u.from THEN u.err ELSE errored
      /\ A!Goto(w, IF action \in u.from THEN u.then ELSE u.else)
      /\ UNCHANGED <<ev, audit, event, token, abandons, open, excused, overlapped>>
  BY DEF A!WriteAction
<1>2. /\ u.from \subseteq {"approved", "executing", "queued"}
      /\ u.to \in {"queued", "executed", "failed", "uncertain"}
      /\ u.to = "queued" => doing[w] \in {"handoff", "retryable"} /\ u.from = {"executing"}
      /\ u.then \in {"done", "release"} /\ u.else \in {"done", "recheck"}
      /\ u.err \in {TRUE, FALSE, errored}
  BY <1>1, WriteFacts
<1>. HIDE DEF u
<1>3. PICK s \in {"done", "release", "recheck"} : A!Goto(w, s)
  BY <1>1, <1>2
<1>4. /\ doing' \in [Workers -> A!Stages] /\ doing'[w] = s
      /\ event'[w] = event[w] /\ token'[w] = token[w]
      /\ \A v \in Workers : v # w => WorkerStays(v)
  BY <1>1, <1>3, GotoFacts DEF A!Stages
<1>5. A!TypeOK'
  <2>1. errored' \in BOOLEAN /\ action' \in A!ActionStatus
    BY <1>1, <1>2 DEF ActionInv, A!TypeOK, A!ActionStatus, A!Terminal
  <2>. QED  BY <1>1, <1>4, <2>1 DEF ActionInv, A!TypeOK
<1>6. ExecutorInv'
  <2>1. event[w] \in A!Events
    BY <1>1 DEF ActionInv, ExecutorInv
  <2>. QED  BY <1>4, <2>1 DEF ActionInv, ExecutorInv, WorkerStays
<1>7. \A v \in Workers : WorkerStays(v) \/ Disowned(v)
  BY <1>4 DEF Disowned
<1>8. CASE action' \in Startables => action \in Startables
  BY <1>1, <1>5, <1>6, <1>7, <1>8, QuietInv
<1>9. CASE action' \in Startables /\ action \notin Startables
  <2>1. action' = "queued" /\ doing[w] \in {"handoff", "retryable"} /\ Owner(w)
    BY <1>1, <1>2, <1>9 DEF Startables, Owner
  <2>2. NoReplay' <=> NoReplay
    BY <1>1 DEF NoReplay
  <2>3. NoReplay => \A v \in Workers : ~Owner(v)'
    <3>1. NoReplay => \A v \in Workers : Owner(v) => v = w
      BY <2>1 DEF ActionInv, OwnerInv
    <3>. QED  BY <1>4, <3>1 DEF Owner, WorkerStays
  <2>4. OwnerInv'
    BY <2>2, <2>3 DEF OwnerInv
  <2>5. ASSUME ~excused' PROVE NoReplay /\ open' = {}
    BY <1>1, <2>1, <2>5 DEF ActionInv, OpenInv
  <2>6. OpenInv'
    BY <2>2, <2>3, <2>5 DEF OpenInv, Owner
  <2>. QED  BY <1>5, <1>6, <2>4, <2>6 DEF ActionInv
<1>. QED  BY <1>8, <1>9

LEMMA ActionNextInv ==
    ASSUME A!ActionExecutionAssumption, ActionInv, [A!Next]_(A!vars)
    PROVE  ActionInv'
<1>1. CASE UNCHANGED A!vars
  <2>1. UNCHANGED <<action, errored, ev, audit, A!worker, abandons, open, excused, overlapped>>
    BY <1>1 DEF A!vars
  <2>2. ExecutorInv' /\ (\A w \in Workers : WorkerStays(w)) /\ UNCHANGED <<doing, event, token>>
    BY <2>1, SameWorkers
  <2>3. A!TypeOK'
    BY <2>1, <2>2 DEF ActionInv, A!TypeOK
  <2>. QED  BY <2>1, <2>2, <2>3, QuietInv
<1>2. ASSUME NEW w \in Workers, A!PollNothing(w) \/ A!Heartbeat(w) \/ A!Abandon(w) \/ A!Step(w)
      PROVE  ActionInv'
  <2>1. CASE A!Step(w)
    BY <2>1, LoadInv, MarkExecutingInv, WriteActionInv, RecheckInv, SettleEventInv,
       ExecutorEndsInv DEF A!Step
  <2>2. CASE A!PollNothing(w)
    BY <1>1, <2>2 DEF A!PollNothing
  <2>. QED  BY <1>2, <2>1, <2>2, AbandonInv, EventRowsInv
<1>3. CASE A!Next
  BY <1>2, <1>3, CreationInv, ResolveActionInv, DownstreamInv, ClaimInv, EventRowsInv DEF A!Next
<1>. QED  BY <1>1, <1>3

LEMMA ActionInductive ==
    ASSUME A!ActionExecutionAssumption
    PROVE  A!Spec => []ActionInv
<1>1. A!Init => ActionInv
  BY ActionInitInv
<1>2. ActionInv /\ [A!Next]_(A!vars) => ActionInv'
  BY ActionNextInv
<1>. QED  BY <1>1, <1>2, PTL DEF A!Spec

\* The rows keep their types; unless an operator had the action executed again, two
\* workers never have the executor called at the same time, whoever lost a lease; and a
\* claim past max_attempts never calls it (process_action_queue_event, mark_executing).
THEOREM OneCallAtATime ==
    ASSUME A!ActionExecutionAssumption
    PROVE  A!Spec => []A!ActionConsistent
<1>1. ASSUME ActionInv PROVE A!ActionConsistent
  <2>1. A!OverlapNeedsResolution
    BY <1>1 DEF ActionInv, OwnerInv, NoReplay, Owner, A!OverlapNeedsResolution
  <2>2. A!RecoveryNeverCalls
    BY <1>1 DEF ActionInv, ExecutorInv, A!RecoveryNeverCalls
  <2>. QED  BY <1>1, <2>1, <2>2 DEF ActionInv, A!ActionConsistent
<1>. QED  BY ActionInductive, <1>1, PTL

\* executed, failed and denied are final: every write of a worker, and of the downstream
\* system, names the statuses it may leave; uncertain is left by resolve_action, which
\* audits it.
THEOREM FinalOutcomes ==
    ASSUME A!ActionExecutionAssumption
    PROVE  A!Spec => A!OutcomeIsFinal
<1>1. ASSUME ActionInv, A!Next, action' # action
      PROVE  /\ action \notin {"executed", "failed", "denied"}
             /\ action = "uncertain" => \E r \in RequestKeys : audit[r] = "none" /\ audit'[r] # "none"
  <2>1. ASSUME NEW w \in Workers, A!WriteAction(w) PROVE action \in {"approved", "executing", "queued"}
    <3>1. /\ doing[w] \in {"handoff", "executed", "failing", "uncertain", "retryable", "exhausted"}
          /\ action' = IF action \in A!WriteOf(doing[w]).from THEN A!WriteOf(doing[w]).to ELSE action
      BY <2>1 DEF A!WriteAction
    <3>. QED  BY <1>1, <3>1, WriteFacts
  <2>2. ASSUME NEW w \in Workers, A!MarkExecuting(w) PROVE action \in {"approved", "queued"}
    BY <1>1, <2>2 DEF A!MarkExecuting, A!Startable
  <2>3. ASSUME NEW w \in Workers, NEW e \in A!Events PROVE ~A!Claim(w, e)
    BY <1>1 DEF A!Claim
  <2>4. ASSUME NEW w \in Workers
        PROVE  /\ ~A!PollNothing(w) /\ ~A!Heartbeat(w) /\ ~A!Abandon(w) /\ ~A!Load(w)
               /\ ~A!Recheck(w) /\ ~A!SettleEvent(w) /\ \A r \in Results : ~A!ExecutorEnds(w, r)
    BY <1>1 DEF A!PollNothing, A!vars, A!Heartbeat, A!Abandon, A!Load, A!Recheck, A!SettleEvent, A!ExecutorEnds
  <2>5. ~A!Tick
    BY <1>1 DEF A!Tick
  <2>6. CASE A!Approve \/ A!Deny \/ \E p \in {"auto", "manual"} : A!InsertAction(p)
    BY <2>6 DEF A!Approve, A!Deny, A!InsertAction
  <2>7. CASE \E s \in {"executed", "failed"} : A!Downstream(s)
    BY <2>7 DEF A!Downstream
  <2>8. ASSUME NEW r \in RequestKeys, NEW x \in A!Resolutions, A!ResolveAction(r, x)
        PROVE  action = "uncertain" /\ audit[r] = "none" /\ audit'[r] # "none"
    <3>1. audit'[r] = x
      BY <1>1, <2>8 DEF A!ResolveAction, ActionInv, A!TypeOK
    <3>. QED  BY <2>8, <3>1 DEF A!ResolveAction, A!Resolutions
  <2>. QED  BY <1>1, <2>1, <2>2, <2>3, <2>4, <2>5, <2>6, <2>7, <2>8 DEF A!Next, A!Step
<1>2. ASSUME ActionInv, [A!Next]_(A!vars)
      PROVE  [/\ action \in {"executed", "failed", "denied"} => action' = action
              /\ action = "uncertain" /\ action' # action =>
                   \E r \in RequestKeys : audit[r] = "none" /\ audit'[r] # "none"]_(A!vars)
  BY <1>1, <1>2
<1>. QED  BY ActionInductive, <1>2, PTL DEF A!Spec, A!OutcomeIsFinal

\* The executor is called by mark_executing alone, and what it finds startable has no
\* call that may have had its effect, unless a hand-off or an operator excuses the next.
THEOREM NeverReplaysBlindly ==
    ASSUME A!ActionExecutionAssumption
    PROVE  A!Spec => A!NoBlindReplay
<1>1. ASSUME ActionInv, A!Next, NEW w \in Workers, doing[w] = "begin", doing'[w] = "calling"
      PROVE  open = {} \/ excused
  <2>1. doing \in [Workers -> A!Stages]
    BY <1>1 DEF ActionInv, A!TypeOK
  <2>2. \A v \in Workers, s \in A!Stages : A!Goto(v, s) => s = "calling"
    BY <1>1, <2>1 DEF A!Goto
  <2>3. \A v \in Workers : ~A!Leave(v)
    BY <1>1, <2>1 DEF A!Leave
  <2>4. UNCHANGED A!worker => FALSE
    BY <1>1 DEF A!worker
  <2>5. /\ ~A!Approve /\ ~A!Deny /\ ~A!Tick
        /\ \A p \in {"auto", "manual"} : ~A!InsertAction(p)
        /\ \A r \in RequestKeys, x \in A!Resolutions : ~A!ResolveAction(r, x)
        /\ \A s \in {"executed", "failed"} : ~A!Downstream(s)
    BY <2>4 DEF A!Approve, A!Deny, A!Tick, A!InsertAction, A!ResolveAction, A!Downstream
  <2>6. ASSUME NEW v \in Workers
        PROVE  /\ ~A!PollNothing(v) /\ ~A!Heartbeat(v) /\ ~A!Abandon(v) /\ ~A!SettleEvent(v)
               /\ ~A!Load(v) /\ ~A!Recheck(v) /\ ~A!WriteAction(v)
               /\ \A e \in A!Events : ~A!Claim(v, e)
               /\ \A r \in Results : ~A!ExecutorEnds(v, r)
    <3>1. ~A!PollNothing(v) /\ ~A!Heartbeat(v) /\ ~A!Abandon(v) /\ ~A!SettleEvent(v)
      BY <2>3, <2>4 DEF A!PollNothing, A!vars, A!Heartbeat, A!Abandon, A!SettleEvent
    <3>2. \A e \in A!Events : ~A!Claim(v, e)
      BY <1>1, <2>1 DEF A!Claim
    <3>3. ~A!Load(v)
      <4>1. A!Route(v) \in {"done", "uncertain", "exhausted", "begin"}
        BY DEF A!Route
      <4>. QED  BY <2>2, <4>1 DEF A!Load, A!Stages
    <3>4. ~A!Recheck(v)
      BY <2>2, <2>3 DEF A!Recheck, A!Stages
    <3>5. ~A!WriteAction(v)
      <4>1. ASSUME A!WriteAction(v) PROVE \E s \in {"done", "release", "recheck"} : A!Goto(v, s)
        BY <4>1, WriteFacts DEF A!WriteAction
      <4>. QED  BY <2>2, <4>1 DEF A!Stages
    <3>6. ASSUME NEW r \in Results PROVE ~A!ExecutorEnds(v, r)
      <4>1. ASSUME A!ExecutorEnds(v, r)
            PROVE  \E s \in {"handoff", "executed", "failing", "uncertain", "exhausted", "retryable"} :
                     A!Goto(v, s)
        BY <4>1 DEF A!ExecutorEnds, A!AfterCall
      <4>. QED  BY <2>2, <4>1 DEF A!Stages
    <3>. QED  BY <3>1, <3>2, <3>3, <3>4, <3>5, <3>6
  <2>7. PICK v \in Workers : A!MarkExecuting(v)
    BY <1>1, <2>5, <2>6 DEF A!Next, A!Step
  <2>8. A!Startable
    BY <2>2, <2>7 DEF A!MarkExecuting, A!Stages
  <2>. QED  BY <1>1, <2>8 DEF ActionInv, OpenInv, A!Startable, Startables
<1>2. ASSUME ActionInv, [A!Next]_(A!vars)
      PROVE  [\A w \in Workers : doing[w] = "begin" /\ doing'[w] = "calling" =>
                open = {} \/ excused]_(A!vars)
  BY <1>1, <1>2
<1>. QED  BY ActionInductive, <1>2, PTL DEF A!Spec, A!NoBlindReplay

============================================================================
