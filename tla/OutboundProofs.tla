--------------------------- MODULE OutboundProofs ---------------------------
(***************************************************************************)
(* Proofs about Outbound, for any messages, keys, orderings and            *)
(* references, any number of workers and operators' requests, any attempt  *)
(* limit, lease and backoff; and about DialogueTasks, whose questions and  *)
(* answers these messages carry.  The dialogue has its own, smaller model  *)
(* of them, so it is a separate instance that shares only Messages.        *)
(***************************************************************************)
EXTENDS Outbound, Sequences, FiniteSetTheorems, WellFoundedInduction, TLAPS

\* Most steps are first-order reasoning; those that are not name their prover.
USE Zenon

\* A row is leased or sending exactly while it carries the token of its latest claim.
RowInv(r) ==
    /\ r \in OutboundRow
    /\ r.status \in {"leased", "sending"} => r.token = r.attempts
    /\ r.status \notin {"leased", "sending"} => r.token = 0
    /\ r.status \in {"leased", "sending", "uncertain", "sent"} => r.attempts > 0
    /\ r.status = "absent" => r.attempts = 0

\* The immediate predecessor of a part has been sent.
PredecessorSent(m) ==
    \E p \in Messages : /\ OrderingKey[p] = OrderingKey[m]
                        /\ Position[p] = Position[m] - 1
                        /\ row[p].status = "sent"

\* Only the call of the latest claim may be open, and none is before mark_sending.
MessageInv == \A m \in Messages :
    /\ RowInv(row[m])
    /\ open[m] \subseteq {row[m].attempts}
    /\ open[m] # {} => row[m].attempts > 0
    /\ row[m].status \in {"absent", "queued", "retrying", "leased"} => open[m] = {}
    /\ recorded[m] = IF row[m].status = "sent" THEN 1 ELSE 0
    /\ Position[m] > 1 /\ row[m].attempts > 0 => PredecessorSent(m)

Busy(w, m) == stage[w] # "idle" /\ message[w] = m

\* What a worker knows of its call holds as long as it owns the row.
WorkerInv == \A w \in Workers : stage[w] # "idle" =>
    /\ message[w] \in Messages
    /\ token[w] \in 1 .. row[message[w]].attempts
    /\ stage[w] \in {"calling", "applying"} /\ Holds(row[message[w]], token[w]) =>
         row[message[w]].status = "sending"
    /\ \/ stage[w] = "calling"
       \/ stage[w] = "applying" /\ result[w] = "sent"
       => (Holds(row[message[w]], token[w]) => token[w] \in open[message[w]])
    /\ stage[w] = "applying" =>
         /\ result[w] # "none"
         /\ result[w] \notin {"sent", "raised"} => token[w] \notin open[message[w]]

\* No two workers have the same claim.
ClaimsDiffer == \A v, w \in Workers :
    v # w /\ stage[v] # "idle" /\ stage[w] # "idle" /\ message[v] = message[w] =>
        token[v] # token[w]

SentInv == \A m \in Messages : row[m].status = "sent" =>
    \/ \E k \in RequestKeys : audit[k] = <<m, "sent">>
    \/ /\ row[m].attempts \in open[m]
       /\ \A w \in Workers : Busy(w, m) => token[w] # row[m].attempts

IInv ==
    /\ TypeOK /\ MessageInv /\ WorkerInv /\ ClaimsDiffer /\ SentInv /\ OneMessagePerKey

----------------------------------------------------------------------------
\* What the operations do to a row, whatever the row.

LEMMA ReleasedFacts ==
    ASSUME NEW r, RowInv(r), NEW s \in OutboundStatus \ {"absent", "leased", "sending"},
           s \in {"uncertain", "sent"} => r.attempts > 0
    PROVE  /\ RowInv(Released(r, s))
           /\ Released(r, s).status = s
           /\ Released(r, s).attempts = r.attempts
<1>1. /\ Released(r, s) \in OutboundRow
      /\ Released(r, s).status = s
      /\ Released(r, s).attempts = r.attempts
      /\ Released(r, s).token = 0
  BY DEF Released, RowInv, OutboundRow
<1>. QED  BY <1>1 DEF RowInv

\* A row that is put aside until its backoff is over.
LEMMA WaitingFacts ==
    ASSUME NEW r, RowInv(r), NEW d \in Nat,
           NEW s \in OutboundStatus \ {"absent", "leased", "sending", "uncertain", "sent"}
    PROVE  /\ RowInv([Released(r, s) EXCEPT !.wait = d])
           /\ [Released(r, s) EXCEPT !.wait = d].status = s
           /\ [Released(r, s) EXCEPT !.wait = d].attempts = r.attempts
<1>. DEFINE q == Released(r, s)
<1>1. RowInv(q) /\ q.status = s /\ q.attempts = r.attempts
  BY ReleasedFacts
<1>. HIDE DEF q
<1>2. /\ [q EXCEPT !.wait = d] \in OutboundRow
      /\ [q EXCEPT !.wait = d].status = q.status
      /\ [q EXCEPT !.wait = d].attempts = q.attempts
      /\ [q EXCEPT !.wait = d].token = q.token
  BY <1>1 DEF RowInv, OutboundRow
<1>. QED  BY <1>1, <1>2 DEF RowInv, q

LEMMA ClaimedFacts ==
    ASSUME NEW r, RowInv(r)
    PROVE  /\ RowInv(Claimed(r))
           /\ Claimed(r).status = "leased"
           /\ Claimed(r).attempts = r.attempts + 1
           /\ Claimed(r).token = r.attempts + 1
<1>1. r.attempts \in Nat /\ r.attempts + 1 \in Nat /\ r \in OutboundRow
  BY SMT DEF RowInv, OutboundRow
<1>2. /\ Claimed(r) \in OutboundRow
      /\ Claimed(r).status = "leased"
      /\ Claimed(r).attempts = r.attempts + 1
      /\ Claimed(r).token = r.attempts + 1
  BY <1>1, EventRowAssumption DEF Claimed, OutboundRow, OutboundStatus
<1>. QED  BY <1>1, <1>2, SMT DEF RowInv

LEMMA ElapseFacts ==
    ASSUME NEW r, RowInv(r)
    PROVE  /\ RowInv(Elapse(r))
           /\ Elapse(r).status = r.status
           /\ Elapse(r).attempts = r.attempts
<1>1. r \in OutboundRow /\ Countdown(r.wait) \in Nat /\ Countdown(r.lease) \in Nat
  BY SMT DEF RowInv, OutboundRow, Countdown
<1>2. /\ Elapse(r) \in OutboundRow
      /\ Elapse(r).status = r.status
      /\ Elapse(r).attempts = r.attempts
      /\ Elapse(r).token = r.token
  BY <1>1 DEF Elapse, OutboundRow
<1>. QED  BY <1>2 DEF RowInv

LEMMA ExpiryFacts ==
    ASSUME NEW r, RowInv(r)
    PROVE  /\ RowInv(Expiry(r))
           /\ Expiry(r).attempts = r.attempts
           /\ \/ Expiry(r) = r
              \/ r.status = "sending" /\ Expiry(r).status = "uncertain"
              \/ r.status = "leased" /\ Expiry(r).status = "dead_letter"
<1>1. CASE r.status = "sending" /\ r.lease = 0
  <2>1. Expiry(r) = Released(r, "uncertain")
    BY <1>1 DEF Expiry
  <2>2. r.attempts > 0 /\ "uncertain" \in OutboundStatus \ {"absent", "leased", "sending"}
    BY <1>1 DEF RowInv, OutboundStatus
  <2>. QED  BY <1>1, <2>1, <2>2, ReleasedFacts, SMT
<1>2. CASE r.status = "leased" /\ r.lease = 0 /\ r.attempts >= MaxAttempts
  <2>1. Expiry(r) = Released(r, "dead_letter")
    BY <1>2 DEF Expiry
  <2>2. "dead_letter" \in OutboundStatus \ {"absent", "leased", "sending"}
    BY DEF OutboundStatus, Failed
  <2>. QED  BY <1>2, <2>1, <2>2, ReleasedFacts, SMT
<1>3. CASE /\ ~(r.status = "sending" /\ r.lease = 0)
           /\ ~(r.status = "leased" /\ r.lease = 0 /\ r.attempts >= MaxAttempts)
  <2>1. Expiry(r) = r
    BY <1>3 DEF Expiry
  <2>. QED  BY <2>1
<1>. QED  BY <1>1, <1>2, <1>3

LEMMA CleanedFacts ==
    ASSUME NEW m \in Messages, RowInv(row[m])
    PROVE  /\ RowInv(Cleaned(m))
           /\ Cleaned(m).attempts = row[m].attempts
           /\ \/ Cleaned(m) = row[m]
              \/ row[m].status = "sending" /\ Cleaned(m).status = "uncertain"
              \/ /\ row[m].status \in {"leased", "queued", "retrying"}
                 /\ Cleaned(m).status \in Failed
<1>. DEFINE r == Expiry(row[m])
<1>1. /\ RowInv(r) /\ r.attempts = row[m].attempts
      /\ \/ r = row[m]
         \/ row[m].status = "sending" /\ r.status = "uncertain"
         \/ row[m].status = "leased" /\ r.status = "dead_letter"
  BY ExpiryFacts
<1>2. \/ Cleaned(m) = r
      \/ r.status \in {"queued", "retrying"} /\ Cleaned(m) = Released(r, "cancelled")
  BY DEF Cleaned
<1>. HIDE DEF r
<1>3. CASE Cleaned(m) = r
  BY <1>1, <1>3 DEF Failed
<1>4. CASE r.status \in {"queued", "retrying"} /\ Cleaned(m) = Released(r, "cancelled")
  <2>1. "cancelled" \in OutboundStatus \ {"absent", "leased", "sending"}
    BY DEF OutboundStatus, Failed
  <2>2. RowInv(Cleaned(m)) /\ Cleaned(m).attempts = r.attempts /\ Cleaned(m).status = "cancelled"
    BY <1>1, <1>4, <2>1, ReleasedFacts, SMT
  <2>. QED  BY <1>1, <1>4, <2>2 DEF Failed
<1>. QED  BY <1>2, <1>3, <1>4

\* What is claimed is neither in flight nor done with, and its predecessor was sent.
LEMMA DueFacts ==
    ASSUME NEW m \in Messages, MessageInv, Due(m)
    PROVE  /\ row[m].status \in {"queued", "retrying", "leased"}
           /\ Position[m] > 1 => PredecessorSent(m)
<1>1. RowInv(row[m]) /\ \A p \in Messages : RowInv(row[p])
  BY DEF MessageInv
<1>2. row[m].status \in {"queued", "retrying", "leased"}
  BY <1>1, CleanedFacts DEF Due, Expired, Failed
<1>3. ASSUME Position[m] > 1 PROVE PredecessorSent(m)
  <2>1. PICK p \in Messages : /\ Precedes(p, m) /\ Position[p] = Position[m] - 1
                              /\ Cleaned(p).status = "sent"
    BY <1>3, OutboundAssumption, SMT DEF Due, InTurn
  <2>2. row[p].status = "sent"
    BY <1>1, <2>1, CleanedFacts DEF Failed
  <2>. QED  BY <2>1, <2>2 DEF PredecessorSent, Precedes
<1>. QED  BY <1>2, <1>3

----------------------------------------------------------------------------
\* The invariant holds initially and is preserved by every action.

LEMMA InitInv == Init => IInv
<1>. SUFFICES ASSUME Init PROVE IInv
  OBVIOUS
<1>1. \A m \in Messages : row[m] = NoRow
  BY DEF Init
<1>2. NoRow \in OutboundRow /\ NoRow.status = "absent" /\ NoRow.attempts = 0 /\ NoRow.token = 0
  BY DEF NoRow, OutboundRow, OutboundStatus
<1>3. current \in [References -> BOOLEAN]
  BY DEF Init
<1>4. TypeOK
  BY <1>2, <1>3 DEF Init, TypeOK
<1>5. MessageInv
  BY <1>1, <1>2, SMT DEF Init, MessageInv, RowInv
<1>6. WorkerInv /\ ClaimsDiffer
  BY DEF Init, WorkerInv, ClaimsDiffer
<1>7. SentInv /\ OneMessagePerKey
  BY <1>1, <1>2 DEF SentInv, OneMessagePerKey, Present
<1>. QED  BY <1>4, <1>5, <1>6, <1>7 DEF IInv

\* Rows are enqueued, put back, given up or let pass a second, and workers may leave: no
\* claim is made, no send begins or is reported, and a row that goes back to the queue has
\* no open call.
QuietRow(m) ==
    /\ RowInv(row'[m])
    /\ row'[m].attempts = row[m].attempts
    /\ row'[m].status \in {"leased", "sending", "sent"} => row'[m].status = row[m].status
    /\ row[m].status = "sent" => row'[m].status = "sent"
    /\ row'[m].status \in {"absent", "queued", "retrying", "leased"} => open[m] = {}

WorkerStays(w) ==
    /\ stage'[w] = stage[w] /\ message'[w] = message[w]
    /\ token'[w] = token[w] /\ result'[w] = result[w]

LEMMA QuietInv ==
    ASSUME IInv, TypeOK', OneMessagePerKey',
           \A m \in Messages : QuietRow(m),
           \A w \in Workers : stage'[w] = "idle" \/ WorkerStays(w),
           \A k \in RequestKeys : audit[k] # NoAudit => audit'[k] = audit[k],
           UNCHANGED <<open, recorded>>
    PROVE  IInv'
<1>1. TypeOK /\ MessageInv /\ WorkerInv /\ ClaimsDiffer /\ SentInv
  BY DEF IInv
<1>2. \A m \in Messages : RowInv(row[m]) /\ row[m].attempts \in Nat
  BY <1>1 DEF MessageInv, RowInv, OutboundRow
<1>3. \A m \in Messages : PredecessorSent(m) => PredecessorSent(m)'
  BY DEF PredecessorSent, QuietRow
<1>4. MessageInv'
  <2>1. SUFFICES ASSUME NEW m \in Messages
                 PROVE  /\ RowInv(row'[m])
                        /\ open[m] \subseteq {row'[m].attempts}
                        /\ open[m] # {} => row'[m].attempts > 0
                        /\ row'[m].status \in {"absent", "queued", "retrying", "leased"} =>
                             open[m] = {}
                        /\ recorded[m] = IF row'[m].status = "sent" THEN 1 ELSE 0
                        /\ Position[m] > 1 /\ row'[m].attempts > 0 => PredecessorSent(m)'
    BY DEF MessageInv
  <2>2. QuietRow(m)
    OBVIOUS
  <2>. QED  BY <1>1, <1>3, <2>2 DEF MessageInv, QuietRow
<1>5. ASSUME NEW m \in Messages, NEW t, Holds(row'[m], t)
      PROVE  Holds(row[m], t) /\ row'[m].status = row[m].status
  BY <1>2, <1>5 DEF Holds, QuietRow, RowInv
<1>6. WorkerInv'
  <2>1. \A w \in Workers : stage'[w] # "idle" =>
          /\ WorkerStays(w) /\ stage[w] # "idle" /\ message[w] \in Messages
          /\ row'[message[w]].attempts = row[message[w]].attempts
    BY <1>1, SMT DEF WorkerStays, WorkerInv, QuietRow
  <2>. QED  BY <1>1, <1>5, <2>1, SMT DEF WorkerInv, WorkerStays
<1>7. ClaimsDiffer'
  BY <1>1, SMT DEF ClaimsDiffer, WorkerStays
<1>8. SentInv'
  <2>1. SUFFICES ASSUME NEW m \in Messages, row'[m].status = "sent"
                 PROVE  \/ \E k \in RequestKeys : audit'[k] = <<m, "sent">>
                        \/ /\ row'[m].attempts \in open[m]
                           /\ \A w \in Workers : Busy(w, m)' => token'[w] # row'[m].attempts
    BY DEF SentInv
  <2>2. row[m].status = "sent" /\ row'[m].attempts = row[m].attempts
    BY <2>1 DEF QuietRow
  <2>3. ASSUME NEW k \in RequestKeys, audit[k] = <<m, "sent">> PROVE audit'[k] = <<m, "sent">>
    BY <2>3, OutboundAssumption, SMT DEF NoAudit
  <2>4. \A w \in Workers : Busy(w, m)' => Busy(w, m) /\ token'[w] = token[w]
    BY DEF Busy, WorkerStays
  <2>. QED  BY <1>1, <2>2, <2>3, <2>4 DEF SentInv
<1>. QED  BY <1>4, <1>6, <1>7, <1>8 DEF IInv

\* Cleaning up, and a second that passes, are quiet.
LEMMA CleanedQuiet ==
    ASSUME IInv, NEW m \in Messages, row'[m] = Cleaned(m)
    PROVE  QuietRow(m) /\ (row'[m].status = "absent" <=> row[m].status = "absent")
<1>1. RowInv(row[m]) /\ MessageInv
  BY DEF IInv, MessageInv
<1>. QED  BY <1>1, CleanedFacts DEF QuietRow, MessageInv, Failed

LEMMA SameQuiet ==
    ASSUME IInv, NEW m \in Messages, row'[m] = row[m]
    PROVE  QuietRow(m)
BY DEF IInv, MessageInv, QuietRow

LEMMA ReleasedQuiet ==
    ASSUME IInv, NEW m \in Messages, NEW s \in Failed \cup {"uncertain"},
           row'[m] = Released(row[m], s), row[m].status # "sent",
           s = "uncertain" => row[m].attempts > 0
    PROVE  QuietRow(m) /\ row'[m].status = s
<1>1. RowInv(row[m]) /\ s \in OutboundStatus \ {"absent", "leased", "sending"} /\ s # "sent"
  BY DEF IInv, MessageInv, OutboundStatus, Failed
<1>2. /\ RowInv(row'[m]) /\ row'[m].status = s /\ row'[m].attempts = row[m].attempts
  BY <1>1, ReleasedFacts, SMT
<1>. QED  BY <1>1, <1>2 DEF QuietRow, Failed

LEMMA SameKeys ==
    ASSUME OneMessagePerKey, \A m \in Messages : Present(row'[m]) => Present(row[m])
    PROVE  OneMessagePerKey'
BY DEF OneMessagePerKey

LEMMA EnqueueInv ==
    ASSUME IInv, NEW batch \in SUBSET Messages, Enqueue(batch)
    PROVE  IInv'
<1>. DEFINE fresh == {m \in batch : ~Present(row[m])}
<1>1. /\ row' = [m \in Messages |-> IF m \in fresh THEN NewRow(0) ELSE row[m]]
      /\ \A m \in batch : ~Conflicts(m, batch)
      /\ UNCHANGED <<current, audit, stage, message, token, result, recorded, open>>
  BY DEF Enqueue, worker
<1>2. \A m \in Messages : RowInv(row[m])
  BY DEF IInv, MessageInv
<1>3. /\ RowInv(NewRow(0)) /\ NewRow(0).status = "queued"
      /\ NewRow(0).attempts = 0
  BY DEF RowInv, NewRow, OutboundRow, OutboundStatus
<1>4. ASSUME NEW m \in Messages PROVE QuietRow(m)
  <2>1. CASE m \in fresh
    <3>1. row[m].status = "absent" /\ open[m] = {} /\ row'[m] = NewRow(0)
      BY <1>1, <2>1 DEF Present, IInv, MessageInv
    <3>2. row[m].attempts = 0
      BY <1>2, <3>1 DEF RowInv
    <3>. QED  BY <1>3, <3>1, <3>2 DEF QuietRow
  <2>2. CASE m \notin fresh
    BY <1>1, <2>2, SameQuiet
  <2>. QED  BY <2>1, <2>2
<1>5. TypeOK'
  <2>1. row' \in [Messages -> OutboundRow]
    BY <1>1, <1>2, <1>3 DEF RowInv
  <2>. QED  BY <1>1, <2>1 DEF IInv, TypeOK
<1>6. OneMessagePerKey'
  <2>1. SUFFICES ASSUME NEW m \in Messages, NEW n \in Messages, m # n,
                        Present(row'[m]), Present(row'[n]), IdempotencyKey[m] = IdempotencyKey[n]
                 PROVE  FALSE
    BY DEF OneMessagePerKey
  <2>2. \A x \in Messages : Present(row'[x]) => Present(row[x]) \/ x \in fresh
    BY <1>1
  <2>3. CASE m \in fresh
    BY <1>1, <2>1, <2>2, <2>3 DEF Conflicts
  <2>4. CASE n \in fresh
    BY <1>1, <2>1, <2>2, <2>4 DEF Conflicts
  <2>. QED  BY <2>1, <2>2, <2>3, <2>4 DEF IInv, OneMessagePerKey
<1>. QED  BY <1>1, <1>4, <1>5, <1>6, QuietInv DEF WorkerStays

LEMMA SupersedeInv ==
    ASSUME IInv, NEW x \in References, Supersede(x)
    PROVE  IInv'
<1>1. /\ current' = [current EXCEPT ![x] = FALSE]
      /\ row' = [m \in Messages |->
                 IF Reference[m] = x /\ row[m].status \in {"queued", "retrying", "leased"}
                 THEN Released(row[m], "cancelled") ELSE row[m]]
      /\ UNCHANGED <<audit, stage, message, token, result, recorded, open>>
  BY DEF Supersede, worker
<1>2. ASSUME NEW m \in Messages
      PROVE  QuietRow(m) /\ (Present(row'[m]) => Present(row[m]))
  <2>1. CASE Reference[m] = x /\ row[m].status \in {"queued", "retrying", "leased"}
    BY <1>1, <2>1, ReleasedQuiet DEF Failed, Present
  <2>2. CASE ~(Reference[m] = x /\ row[m].status \in {"queued", "retrying", "leased"})
    BY <1>1, <2>2, SameQuiet
  <2>. QED  BY <2>1, <2>2
<1>3. TypeOK'
  <2>1. row' \in [Messages -> OutboundRow]
    BY <1>1, <1>2 DEF QuietRow, RowInv
  <2>2. current' \in [References -> BOOLEAN]
    BY <1>1 DEF IInv, TypeOK
  <2>. QED  BY <1>1, <2>1, <2>2 DEF IInv, TypeOK
<1>. QED  BY <1>1, <1>2, <1>3, QuietInv, SameKeys DEF WorkerStays, IInv

LEMMA PollInv ==
    ASSUME IInv, NEW w \in Workers, PollNothing(w)
    PROVE  IInv'
<1>1. /\ row' = [m \in Messages |-> Cleaned(m)]
      /\ UNCHANGED <<current, audit, stage, message, token, result, recorded, open>>
  BY DEF PollNothing, worker
<1>2. \A m \in Messages : QuietRow(m) /\ (Present(row'[m]) => Present(row[m]))
  BY <1>1, CleanedQuiet DEF Present
<1>3. TypeOK'
  <2>1. row' \in [Messages -> OutboundRow]
    BY <1>1, <1>2 DEF QuietRow, RowInv
  <2>. QED  BY <1>1, <2>1 DEF IInv, TypeOK
<1>. QED  BY <1>1, <1>2, <1>3, QuietInv, SameKeys DEF WorkerStays, IInv

LEMMA TickInv ==
    ASSUME IInv, Tick
    PROVE  IInv'
<1>1. /\ row' = [m \in Messages |-> Elapse(row[m])]
      /\ UNCHANGED <<current, audit, stage, message, token, result, recorded, open>>
  BY DEF Tick, worker
<1>2. ASSUME NEW m \in Messages
      PROVE  QuietRow(m) /\ (Present(row'[m]) => Present(row[m]))
  <2>1. RowInv(row[m])
    BY DEF IInv, MessageInv
  <2>2. RowInv(row'[m]) /\ row'[m].status = row[m].status /\ row'[m].attempts = row[m].attempts
    BY <1>1, <2>1, ElapseFacts
  <2>. QED  BY <2>2 DEF QuietRow, Present, IInv, MessageInv
<1>3. TypeOK'
  <2>1. row' \in [Messages -> OutboundRow]
    BY <1>1, <1>2 DEF QuietRow, RowInv
  <2>. QED  BY <1>1, <2>1 DEF IInv, TypeOK
<1>. QED  BY <1>1, <1>2, <1>3, QuietInv, SameKeys DEF WorkerStays, IInv

LEMMA HeartbeatInv ==
    ASSUME IInv, NEW w \in Workers, Heartbeat(w)
    PROVE  IInv'
<1>. DEFINE m == message[w]
            r == [row[m] EXCEPT !.lease = LeaseSeconds]
<1>1. /\ row' = [row EXCEPT ![m] = r]
      /\ UNCHANGED <<current, audit, stage, message, token, result, recorded, open>>
      /\ m \in Messages
  BY DEF Heartbeat, worker, IInv, WorkerInv
<1>. HIDE DEF m
<1>2. RowInv(row[m]) /\ row \in [Messages -> OutboundRow]
  BY <1>1 DEF IInv, MessageInv, TypeOK
<1>3. /\ r \in OutboundRow /\ r.status = row[m].status /\ r.attempts = row[m].attempts
      /\ r.token = row[m].token
  BY <1>2, EventRowAssumption DEF RowInv, OutboundRow
<1>4. RowInv(r)
  BY <1>2, <1>3 DEF RowInv
<1>. HIDE DEF r
<1>5. ASSUME NEW n \in Messages PROVE QuietRow(n) /\ (Present(row'[n]) => Present(row[n]))
  <2>1. CASE n = m
    BY <1>1, <1>2, <1>3, <1>4, <2>1 DEF QuietRow, Present, IInv, MessageInv
  <2>2. CASE n # m
    BY <1>1, <1>2, <2>2, SameQuiet
  <2>. QED  BY <2>1, <2>2
<1>6. TypeOK'
  BY <1>1, <1>2, <1>3 DEF IInv, TypeOK
<1>. QED  BY <1>1, <1>5, <1>6, QuietInv, SameKeys DEF WorkerStays, IInv

LEMMA ClaimInv ==
    ASSUME IInv, NEW w \in Workers, NEW m \in Messages, Claim(w, m)
    PROVE  IInv'
<1>1. /\ row' = [n \in Messages |-> IF n = m THEN Claimed(row[n]) ELSE Cleaned(n)]
      /\ stage' = [stage EXCEPT ![w] = "claimed"]
      /\ message' = [message EXCEPT ![w] = m]
      /\ token' = [token EXCEPT ![w] = Claimed(row[m]).token]
      /\ UNCHANGED <<current, audit, result, recorded, open>>
      /\ Due(m)
  BY DEF Claim
<1>2. TypeOK /\ MessageInv /\ WorkerInv /\ ClaimsDiffer /\ SentInv
  BY DEF IInv
<1>3. RowInv(row[m]) /\ row[m].attempts \in Nat
  BY <1>2 DEF MessageInv, RowInv, OutboundRow
<1>4. /\ row[m].status \in {"queued", "retrying", "leased"}
      /\ Position[m] > 1 => PredecessorSent(m)
      /\ open[m] = {}
  BY <1>1, <1>2, DueFacts DEF MessageInv
<1>5. /\ RowInv(row'[m]) /\ row'[m].status = "leased"
      /\ row'[m].attempts = row[m].attempts + 1
      /\ token' = [token EXCEPT ![w] = row[m].attempts + 1]
  BY <1>1, <1>3, ClaimedFacts
<1>6. ASSUME NEW n \in Messages, n # m
      PROVE  QuietRow(n) /\ (Present(row'[n]) => Present(row[n]))
  BY <1>1, <1>6, CleanedQuiet DEF Present
<1>7. TypeOK'
  <2>1. row' \in [Messages -> OutboundRow]
    BY <1>1, <1>5, <1>6 DEF QuietRow, RowInv
  <2>. QED  BY <1>1, <1>2, <1>3, <1>5, <2>1, SMT DEF TypeOK
<1>8. \A v \in Workers :
        \/ v = w /\ stage'[v] = "claimed" /\ message'[v] = m /\ token'[v] = row[m].attempts + 1
        \/ v # w /\ WorkerStays(v)
  BY <1>1, <1>2, <1>5 DEF TypeOK, WorkerStays
<1>9. \A n \in Messages : PredecessorSent(n) => PredecessorSent(n)'
  BY <1>4, <1>6 DEF PredecessorSent, QuietRow
<1>10. MessageInv'
  <2>1. SUFFICES ASSUME NEW n \in Messages
                 PROVE  /\ RowInv(row'[n])
                        /\ open[n] \subseteq {row'[n].attempts}
                        /\ open[n] # {} => row'[n].attempts > 0
                        /\ row'[n].status \in {"absent", "queued", "retrying", "leased"} =>
                             open[n] = {}
                        /\ recorded[n] = IF row'[n].status = "sent" THEN 1 ELSE 0
                        /\ Position[n] > 1 /\ row'[n].attempts > 0 => PredecessorSent(n)'
    BY <1>1 DEF MessageInv
  <2>2. CASE n = m
    BY <1>2, <1>4, <1>5, <1>9, <2>2 DEF MessageInv
  <2>3. CASE n # m
    BY <1>2, <1>6, <1>9, <2>3 DEF MessageInv, QuietRow
  <2>. QED  BY <2>2, <2>3
<1>11. ASSUME NEW v \in Workers, v # w, stage[v] # "idle"
       PROVE  /\ message[v] \in Messages
              /\ token[v] \in 1 .. row'[message[v]].attempts
              /\ Holds(row'[message[v]], token[v]) =>
                   /\ Holds(row[message[v]], token[v])
                   /\ row'[message[v]].status = row[message[v]].status
              /\ message[v] = m => token[v] <= row[m].attempts
  <2>1. message[v] \in Messages /\ token[v] \in 1 .. row[message[v]].attempts
    BY <1>2, <1>11 DEF WorkerInv
  <2>2. CASE message[v] = m
    <3>1. row'[m].token = row[m].attempts + 1
      BY <1>5 DEF RowInv
    <3>. QED  BY <1>3, <1>5, <2>1, <2>2, <3>1, SMT DEF Holds
  <2>3. CASE message[v] # m
    <3>1. QuietRow(message[v]) /\ RowInv(row[message[v]])
      BY <1>2, <1>6, <2>1, <2>3 DEF MessageInv
    <3>. QED  BY <2>1, <2>3, <3>1 DEF Holds, QuietRow, RowInv
  <2>. QED  BY <2>2, <2>3
<1>12. WorkerInv'
  <2>1. ASSUME NEW v \in Workers, v # w, stage[v] # "idle"
        PROVE  /\ stage[v] \in {"calling", "applying"} /\ Holds(row'[message[v]], token[v]) =>
                    row'[message[v]].status = "sending"
               /\ \/ stage[v] = "calling"
                  \/ stage[v] = "applying" /\ result[v] = "sent"
                  => (Holds(row'[message[v]], token[v]) => token[v] \in open[message[v]])
               /\ stage[v] = "applying" =>
                    /\ result[v] # "none"
                    /\ result[v] \notin {"sent", "raised"} => token[v] \notin open[message[v]]
    BY <1>2, <1>11, <2>1 DEF WorkerInv
  <2>2. row[m].attempts + 1 \in 1 .. row'[m].attempts
    BY <1>3, <1>5, SMT
  <2>. QED  BY <1>1, <1>8, <1>11, <2>1, <2>2, SMT DEF WorkerInv, WorkerStays
<1>13. ClaimsDiffer'
  <2>1. ASSUME NEW v \in Workers, v # w, stage[v] # "idle", message[v] = m
        PROVE  token[v] # row[m].attempts + 1
    BY <1>2, <1>3, <2>1, SMT DEF WorkerInv
  <2>. QED  BY <1>2, <1>8, <2>1, SMT DEF ClaimsDiffer, WorkerStays
<1>14. SentInv'
  <2>1. SUFFICES ASSUME NEW n \in Messages, row'[n].status = "sent"
                 PROVE  \/ \E k \in RequestKeys : audit[k] = <<n, "sent">>
                        \/ /\ row'[n].attempts \in open[n]
                           /\ \A v \in Workers : Busy(v, n)' => token'[v] # row'[n].attempts
    BY <1>1 DEF SentInv
  <2>2. n # m /\ row[n].status = "sent" /\ row'[n].attempts = row[n].attempts
    BY <1>5, <1>6, <2>1 DEF QuietRow
  <2>3. \A v \in Workers : Busy(v, n)' => Busy(v, n) /\ token'[v] = token[v]
    BY <1>8, <2>2 DEF Busy, WorkerStays
  <2>. QED  BY <1>2, <2>2, <2>3 DEF SentInv
<1>15. OneMessagePerKey'
  <2>1. \A n \in Messages : Present(row'[n]) => Present(row[n])
    BY <1>4, <1>6 DEF Present
  <2>. QED  BY <2>1, SameKeys DEF IInv
<1>. QED  BY <1>7, <1>10, <1>12, <1>13, <1>14, <1>15 DEF IInv

\* The worker leaves, and the row it had is as it was or put aside.
LEMMA LeaveInv ==
    ASSUME IInv, NEW w \in Workers, Leave(w), NEW m \in Messages, NEW r, RowInv(r),
           row' = [row EXCEPT ![m] = r], QuietRow(m), Present(r) => Present(row[m]),
           UNCHANGED <<current, audit, recorded, open>>
    PROVE  IInv'
<1>1. /\ stage' = [stage EXCEPT ![w] = "idle"] /\ message' = [message EXCEPT ![w] = NoMessage]
      /\ token' = [token EXCEPT ![w] = 0] /\ result' = [result EXCEPT ![w] = "none"]
  BY DEF Leave
<1>2. row \in [Messages -> OutboundRow] /\ r \in OutboundRow
  BY DEF IInv, TypeOK, RowInv
<1>3. \A n \in Messages : QuietRow(n) /\ (Present(row'[n]) => Present(row[n]))
  <2>1. \A n \in Messages : n # m => row'[n] = row[n]
    BY <1>2
  <2>2. row'[m] = r
    BY <1>2
  <2>. QED  BY <2>1, <2>2, SameQuiet
<1>4. \A v \in Workers : stage'[v] = "idle" \/ WorkerStays(v)
  BY <1>1 DEF IInv, TypeOK, WorkerStays
<1>5. TypeOK'
  BY <1>1, <1>2 DEF IInv, TypeOK
<1>. QED  BY <1>3, <1>4, <1>5, QuietInv, SameKeys DEF IInv

LEMMA AbandonInv ==
    ASSUME IInv, NEW w \in Workers, Leave(w), stage[w] # "idle",
           UNCHANGED <<row, current, audit, recorded, open>>
    PROVE  IInv'
<1>. DEFINE m == message[w]
<1>1. m \in Messages /\ RowInv(row[m]) /\ row \in [Messages -> OutboundRow]
  BY DEF IInv, WorkerInv, MessageInv, TypeOK
<1>. HIDE DEF m
<1>2. row' = [row EXCEPT ![m] = row[m]] /\ QuietRow(m)
  BY <1>1, SameQuiet
<1>. QED  BY <1>1, <1>2, LeaveInv

LEMMA MarkSendingInv ==
    ASSUME IInv, NEW w \in Workers, MarkSending(w)
    PROVE  IInv'
<1>. DEFINE m == message[w]
            owned == row[m].status = "leased" /\ row[m].token = token[w] /\ row[m].lease > 0
<1>1. /\ stage[w] = "claimed"
      /\ UNCHANGED <<current, audit, recorded>>
      /\ \/ Leave(w) /\ UNCHANGED <<row, open>>
         \/ /\ owned
            /\ row' = [row EXCEPT ![m] = Released(row[m], "cancelled")]
            /\ Leave(w) /\ open' = open
         \/ /\ owned
            /\ row' = [row EXCEPT ![m].status = "sending"]
            /\ stage' = [stage EXCEPT ![w] = "calling"]
            /\ open' = [open EXCEPT ![m] = @ \cup {token[w]}]
            /\ UNCHANGED <<message, token, result>>
  BY DEF MarkSending
<1>2. TypeOK /\ MessageInv /\ WorkerInv /\ ClaimsDiffer /\ SentInv
  BY DEF IInv
<1>3. m \in Messages /\ token[w] \in 1 .. row[m].attempts /\ RowInv(row[m])
  BY <1>1, <1>2 DEF WorkerInv, MessageInv
<1>. HIDE DEF m
<1>4. CASE Leave(w) /\ UNCHANGED <<row, open>>
  BY <1>1, <1>4, AbandonInv
<1>5. CASE /\ owned
           /\ row' = [row EXCEPT ![m] = Released(row[m], "cancelled")]
           /\ Leave(w) /\ open' = open
  <2>1. row'[m] = Released(row[m], "cancelled")
    BY <1>2, <1>3, <1>5 DEF TypeOK
  <2>2. QuietRow(m) /\ RowInv(row'[m])
    BY <1>3, <1>5, <2>1, ReleasedQuiet DEF Failed, QuietRow
  <2>3. Present(row[m])
    BY <1>5 DEF Present
  <2>. QED  BY <1>1, <1>3, <1>5, <2>1, <2>2, <2>3, LeaveInv
<1>6. CASE /\ owned
           /\ row' = [row EXCEPT ![m].status = "sending"]
           /\ stage' = [stage EXCEPT ![w] = "calling"]
           /\ open' = [open EXCEPT ![m] = @ \cup {token[w]}]
           /\ UNCHANGED <<message, token, result>>
  <2>1. token[w] = row[m].attempts /\ open[m] = {} /\ row[m].attempts > 0
    BY <1>2, <1>3, <1>6 DEF MessageInv, RowInv
  <2>2. /\ row'[m] \in OutboundRow /\ row'[m].status = "sending"
        /\ row'[m].attempts = row[m].attempts /\ row'[m].token = row[m].token
    BY <1>2, <1>3, <1>6 DEF TypeOK, RowInv, OutboundRow, OutboundStatus
  <2>3. \A n \in Messages : n # m => row'[n] = row[n] /\ open'[n] = open[n]
    BY <1>2, <1>6 DEF TypeOK
  <2>4. open'[m] = {token[w]}
    BY <1>2, <1>3, <1>6, <2>1 DEF TypeOK
  <2>5. TypeOK'
    <3>1. row' \in [Messages -> OutboundRow]
      BY <1>2, <1>3, <1>6, <2>2 DEF TypeOK
    <3>2. open' \in [Messages -> SUBSET Nat]
      BY <1>2, <1>3, <1>6, SMT DEF TypeOK
    <3>. QED  BY <1>1, <1>2, <1>6, <3>1, <3>2 DEF TypeOK
  <2>6. \A v \in Workers : \/ v = w /\ stage'[v] = "calling"
                           \/ v # w /\ stage'[v] = stage[v]
    BY <1>2, <1>6 DEF TypeOK
  <2>7. MessageInv'
    <3>1. RowInv(row'[m])
      BY <1>3, <2>1, <2>2, <1>6 DEF RowInv
    <3>2. \A n \in Messages : row'[n].attempts = row[n].attempts
                              /\ (row'[n].status = "sent" <=> row[n].status = "sent")
      BY <1>6, <2>2, <2>3
    <3>3. \A n \in Messages : PredecessorSent(n) => PredecessorSent(n)'
      BY <3>2 DEF PredecessorSent
    <3>4. ASSUME NEW n \in Messages
          PROVE  /\ RowInv(row'[n])
                 /\ open'[n] \subseteq {row'[n].attempts}
                 /\ open'[n] # {} => row'[n].attempts > 0
                 /\ row'[n].status \in {"absent", "queued", "retrying", "leased"} => open'[n] = {}
                 /\ recorded[n] = IF row'[n].status = "sent" THEN 1 ELSE 0
                 /\ Position[n] > 1 /\ row'[n].attempts > 0 => PredecessorSent(n)'
      <4>1. CASE n = m
        BY <1>2, <1>6, <2>1, <2>2, <2>4, <3>1, <3>2, <3>3, <4>1, SMT DEF MessageInv
      <4>2. CASE n # m
        BY <1>2, <2>3, <3>2, <3>3, <4>2 DEF MessageInv
      <4>. QED  BY <4>1, <4>2
    <3>. QED  BY <1>1, <3>4 DEF MessageInv
  <2>8. ASSUME NEW v \in Workers, v # w, stage[v] # "idle"
        PROVE  /\ message[v] \in Messages
               /\ token[v] \in 1 .. row'[message[v]].attempts
               /\ Holds(row'[message[v]], token[v]) =>
                    Holds(row[message[v]], token[v]) /\ message[v] # m
               /\ message[v] = m => token[v] \notin open'[m]
    <3>1. message[v] \in Messages /\ token[v] \in 1 .. row[message[v]].attempts
      BY <1>2, <2>8 DEF WorkerInv
    <3>2. message[v] = m => token[v] # token[w]
      BY <1>1, <1>2, <2>8 DEF ClaimsDiffer, m
    <3>3. row'[m].token = token[w]
      BY <1>6, <2>2
    <3>. QED  BY <2>2, <2>3, <2>4, <3>1, <3>2, <3>3 DEF Holds
  <2>9. WorkerInv'
    <3>1. ASSUME NEW v \in Workers, v # w, stage[v] # "idle"
          PROVE  /\ stage[v] \in {"calling", "applying"} /\ Holds(row'[message[v]], token[v]) =>
                      row'[message[v]].status = "sending"
                 /\ \/ stage[v] = "calling"
                    \/ stage[v] = "applying" /\ result[v] = "sent"
                    => (Holds(row'[message[v]], token[v]) => token[v] \in open'[message[v]])
                 /\ stage[v] = "applying" =>
                      /\ result[v] # "none"
                      /\ result[v] \notin {"sent", "raised"} => token[v] \notin open'[message[v]]
      BY <1>2, <2>2, <2>3, <2>8, <3>1 DEF WorkerInv
    <3>2. /\ token[w] \in 1 .. row'[m].attempts /\ token[w] \in open'[m]
          /\ row'[m].status = "sending"
      BY <1>3, <2>2, <2>4
    <3>. QED  BY <1>3, <1>6, <2>6, <2>8, <3>1, <3>2 DEF WorkerInv, m
  <2>10. ClaimsDiffer'
    BY <1>1, <1>2, <1>6, <2>6, SMT DEF ClaimsDiffer
  <2>11. SentInv'
    <3>1. ASSUME NEW n \in Messages, row'[n].status = "sent"
          PROVE  /\ n # m /\ row'[n] = row[n] /\ open'[n] = open[n]
                 /\ \A v \in Workers : Busy(v, n)' => Busy(v, n)
      BY <1>1, <1>6, <2>2, <2>3, <2>6, <3>1 DEF Busy
    <3>. QED  BY <1>1, <1>2, <1>6, <3>1, ZenonT(40) DEF SentInv
  <2>12. OneMessagePerKey'
    <3>1. \A n \in Messages : Present(row'[n]) => Present(row[n])
      BY <1>6, <2>3 DEF Present
    <3>. QED  BY <3>1, SameKeys DEF IInv
  <2>. QED  BY <2>5, <2>7, <2>9, <2>10, <2>11, <2>12 DEF IInv
<1>. QED  BY <1>1, <1>4, <1>5, <1>6

LEMMA SenderEndsInv ==
    ASSUME IInv, NEW w \in Workers, NEW r \in AllResults, SenderEnds(w, r)
    PROVE  IInv'
<1>. DEFINE m == message[w]
<1>1. /\ stage[w] = "calling"
      /\ stage' = [stage EXCEPT ![w] = "applying"]
      /\ result' = [result EXCEPT ![w] = r]
      /\ open' = IF r \in {"sent", "raised"} THEN open
                 ELSE [open EXCEPT ![m] = open[m] \ {token[w]}]
      /\ UNCHANGED <<row, current, audit, message, token, recorded>>
  BY DEF SenderEnds
<1>2. TypeOK /\ MessageInv /\ WorkerInv /\ ClaimsDiffer /\ SentInv /\ OneMessagePerKey
  BY DEF IInv
<1>3. /\ m \in Messages /\ token[w] \in 1 .. row[m].attempts
      /\ Holds(row[m], token[w]) => row[m].status = "sending" /\ token[w] \in open[m]
  BY <1>1, <1>2 DEF WorkerInv
<1>4. /\ \A n \in Messages : n # m => open'[n] = open[n]
      /\ open'[m] = IF r \in {"sent", "raised"} THEN open[m] ELSE open[m] \ {token[w]}
  BY <1>1, <1>2, <1>3 DEF TypeOK, m
<1>5. \A v \in Workers : \/ v = w /\ stage'[v] = "applying" /\ result'[v] = r
                         \/ v # w /\ stage'[v] = stage[v] /\ result'[v] = result[v]
  BY <1>1, <1>2 DEF TypeOK
<1>6. \A v \in Workers : v # w /\ stage[v] # "idle" /\ message[v] = m => token[v] # token[w]
  BY <1>1, <1>2 DEF ClaimsDiffer, m
<1>. HIDE DEF m
<1>7. TypeOK'
  <2>1. open' \in [Messages -> SUBSET Nat]
    BY <1>1, <1>2, <1>3 DEF TypeOK
  <2>. QED  BY <1>1, <1>2, <2>1 DEF TypeOK
<1>8. MessageInv'
  <2>1. \A n \in Messages : open'[n] \subseteq open[n]
    BY <1>4
  <2>2. \A n \in Messages : PredecessorSent(n) => PredecessorSent(n)'
    BY <1>1 DEF PredecessorSent
  <2>3. SUFFICES ASSUME NEW n \in Messages
                 PROVE  /\ RowInv(row[n])
                        /\ open'[n] \subseteq {row[n].attempts}
                        /\ open'[n] # {} => row[n].attempts > 0
                        /\ row[n].status \in {"absent", "queued", "retrying", "leased"} =>
                             open'[n] = {}
                        /\ recorded[n] = IF row[n].status = "sent" THEN 1 ELSE 0
                        /\ Position[n] > 1 /\ row[n].attempts > 0 => PredecessorSent(n)'
    BY <1>1 DEF MessageInv
  <2>. QED  BY <1>2, <2>1, <2>2 DEF MessageInv
<1>9. WorkerInv'
  <2>1. ASSUME NEW v \in Workers, stage'[v] # "idle"
        PROVE  /\ message[v] \in Messages
               /\ token[v] \in 1 .. row[message[v]].attempts
               /\ stage'[v] \in {"calling", "applying"} /\ Holds(row[message[v]], token[v]) =>
                    row[message[v]].status = "sending"
               /\ \/ stage'[v] = "calling"
                  \/ stage'[v] = "applying" /\ result'[v] = "sent"
                  => (Holds(row[message[v]], token[v]) => token[v] \in open'[message[v]])
               /\ stage'[v] = "applying" =>
                    /\ result'[v] # "none"
                    /\ result'[v] \notin {"sent", "raised"} => token[v] \notin open'[message[v]]
    <3>1. CASE v = w
      BY <1>3, <1>4, <1>5, <3>1 DEF m, AllResults
    <3>2. CASE v # w
      <4>1. stage[v] # "idle" /\ stage'[v] = stage[v] /\ result'[v] = result[v]
        BY <1>5, <2>1, <3>2
      <4>2. token[v] \in open'[message[v]] <=> token[v] \in open[message[v]]
        BY <1>2, <1>4, <1>6, <3>2, <4>1 DEF WorkerInv
      <4>. QED  BY <1>2, <4>1, <4>2 DEF WorkerInv
    <3>. QED  BY <3>1, <3>2
  <2>. QED  BY <1>1, <2>1 DEF WorkerInv
<1>10. ClaimsDiffer'
  BY <1>1, <1>2, <1>5 DEF ClaimsDiffer
<1>11. SentInv'
  <2>1. SUFFICES ASSUME NEW n \in Messages, row[n].status = "sent"
                 PROVE  \/ \E k \in RequestKeys : audit[k] = <<n, "sent">>
                        \/ /\ row[n].attempts \in open'[n]
                           /\ \A v \in Workers : Busy(v, n)' => token[v] # row[n].attempts
    BY <1>1 DEF SentInv
  <2>2. \A v \in Workers : Busy(v, n)' <=> Busy(v, n)
    BY <1>1, <1>5 DEF Busy
  <2>3. Busy(w, m)
    BY <1>1 DEF Busy, m
  <2>. QED  BY <1>2, <1>4, <2>1, <2>2, <2>3 DEF SentInv
<1>12. OneMessagePerKey'
  BY <1>1, <1>2 DEF OneMessagePerKey
<1>. QED  BY <1>7, <1>8, <1>9, <1>10, <1>11, <1>12 DEF IInv

LEMMA ApplyRaisesInv ==
    ASSUME IInv, NEW w \in Workers, ApplyRaises(w)
    PROVE  IInv'
<1>1. /\ stage[w] = "applying"
      /\ result' = [result EXCEPT ![w] = "raised"]
      /\ UNCHANGED <<row, current, audit, stage, message, token, recorded, open>>
  BY DEF ApplyRaises
<1>2. TypeOK /\ MessageInv /\ WorkerInv /\ ClaimsDiffer /\ SentInv /\ OneMessagePerKey
  BY DEF IInv
<1>3. \A v \in Workers : result'[v] = IF v = w THEN "raised" ELSE result[v]
  BY <1>1, <1>2 DEF TypeOK
<1>4. TypeOK'
  BY <1>1, <1>2 DEF TypeOK, AllResults
<1>5. \A n \in Messages : PredecessorSent(n) => PredecessorSent(n)'
  BY <1>1 DEF PredecessorSent
<1>6. MessageInv'
  BY <1>1, <1>2, <1>5 DEF MessageInv
<1>7. WorkerInv'
  BY <1>1, <1>2, <1>3, SMT DEF WorkerInv
<1>8. ClaimsDiffer' /\ SentInv' /\ OneMessagePerKey'
  BY <1>1, <1>2 DEF ClaimsDiffer, SentInv, OneMessagePerKey, Busy
<1>. QED  BY <1>4, <1>6, <1>7, <1>8 DEF IInv

\* A send is recorded: by the worker of the latest claim, whose call was accepted, or by
\* an operator.
LEMMA SentRowInv ==
    ASSUME IInv, TypeOK', NEW m \in Messages,
           row' = [row EXCEPT ![m] = Released(row[m], "sent")],
           row[m].status \in {"sending", "uncertain"},
           recorded' = [recorded EXCEPT ![m] = recorded[m] + 1],
           open' = open,
           \A v \in Workers : stage'[v] = "idle" \/ WorkerStays(v),
           \A k \in RequestKeys : audit[k] # NoAudit => audit'[k] = audit[k],
           \/ \E k \in RequestKeys : audit'[k] = <<m, "sent">>
           \/ /\ row[m].attempts \in open[m]
              /\ \A v \in Workers : stage'[v] # "idle" /\ message[v] = m =>
                   token[v] # row[m].attempts
    PROVE  IInv'
<1>1. TypeOK /\ MessageInv /\ WorkerInv /\ ClaimsDiffer /\ SentInv /\ OneMessagePerKey
  BY DEF IInv
<1>2. RowInv(row[m]) /\ row[m].attempts > 0
  BY <1>1 DEF MessageInv, RowInv
<1>3. \A n \in Messages : n # m => row'[n] = row[n] /\ recorded'[n] = recorded[n]
  BY <1>1 DEF TypeOK
<1>4. /\ RowInv(row'[m]) /\ row'[m].status = "sent" /\ row'[m].attempts = row[m].attempts
  <2>1. row'[m] = Released(row[m], "sent")
    BY <1>1 DEF TypeOK
  <2>. QED  BY <1>2, <2>1, ReleasedFacts, SMT DEF OutboundStatus
<1>5. recorded'[m] = 1
  <2>1. recorded[m] = 0
    BY <1>1 DEF MessageInv
  <2>. QED  BY <1>1, <2>1, SMT DEF TypeOK
<1>6. \A n \in Messages : PredecessorSent(n) => PredecessorSent(n)'
  BY <1>3, <1>4 DEF PredecessorSent
<1>7. MessageInv'
  <2>1. SUFFICES ASSUME NEW n \in Messages
                 PROVE  /\ RowInv(row'[n])
                        /\ open[n] \subseteq {row'[n].attempts}
                        /\ open[n] # {} => row'[n].attempts > 0
                        /\ row'[n].status \in {"absent", "queued", "retrying", "leased"} =>
                             open[n] = {}
                        /\ recorded'[n] = IF row'[n].status = "sent" THEN 1 ELSE 0
                        /\ Position[n] > 1 /\ row'[n].attempts > 0 => PredecessorSent(n)'
    BY DEF MessageInv
  <2>. QED  BY <1>1, <1>3, <1>4, <1>5, <1>6, SMT DEF MessageInv
<1>8. WorkerInv'
  <2>1. \A v \in Workers : stage'[v] # "idle" =>
          /\ WorkerStays(v) /\ stage[v] # "idle" /\ message[v] \in Messages
          /\ row'[message[v]].attempts = row[message[v]].attempts
    BY <1>1, <1>3, <1>4, SMT DEF WorkerStays, WorkerInv
  <2>2. \A n \in Messages, t \in Nat : Holds(row'[n], t) => n # m /\ row'[n] = row[n]
    BY <1>3, <1>4 DEF Holds
  <2>3. \A v \in Workers : token[v] \in Nat
    BY <1>1 DEF TypeOK
  <2>. QED  BY <1>1, <2>1, <2>2, <2>3, SMT DEF WorkerInv, WorkerStays
<1>9. ClaimsDiffer'
  BY <1>1, SMT DEF ClaimsDiffer, WorkerStays
<1>10. SentInv'
  <2>1. SUFFICES ASSUME NEW n \in Messages, row'[n].status = "sent"
                 PROVE  \/ \E k \in RequestKeys : audit'[k] = <<n, "sent">>
                        \/ /\ row'[n].attempts \in open[n]
                           /\ \A v \in Workers : Busy(v, n)' => token'[v] # row'[n].attempts
    BY DEF SentInv
  <2>2. ASSUME NEW k \in RequestKeys, audit[k] = <<n, "sent">> PROVE audit'[k] = <<n, "sent">>
    BY <2>2, OutboundAssumption, SMT DEF NoAudit
  <2>3. \A v \in Workers : Busy(v, n)' =>
          Busy(v, n) /\ token'[v] = token[v] /\ stage'[v] # "idle" /\ message[v] = n
    BY DEF Busy, WorkerStays
  <2>4. CASE n = m
    BY <1>4, <2>3, <2>4
  <2>5. CASE n # m
    <3>1. row'[n] = row[n] /\ row[n].status = "sent"
      BY <1>3, <2>1, <2>5
    <3>2. \/ \E k \in RequestKeys : audit[k] = <<n, "sent">>
          \/ /\ row[n].attempts \in open[n]
             /\ \A v \in Workers : Busy(v, n) => token[v] # row[n].attempts
      BY <1>1, <3>1 DEF SentInv
    <3>. QED  BY <2>2, <2>3, <3>1, <3>2
  <2>. QED  BY <2>4, <2>5
<1>11. OneMessagePerKey'
  <2>1. \A n \in Messages : Present(row'[n]) => Present(row[n])
    BY <1>3 DEF Present
  <2>. QED  BY <1>1, <2>1, SameKeys
<1>. QED  BY <1>7, <1>8, <1>9, <1>10, <1>11 DEF IInv

LEMMA ApplyInv ==
    ASSUME IInv, NEW w \in Workers, Apply(w)
    PROVE  IInv'
<1>. DEFINE m == message[w]
            r == Applied(row[m], token[w], result[w])
<1>1. /\ stage[w] = "applying"
      /\ row' = [row EXCEPT ![m] = r]
      /\ recorded' = IF row[m].status # "sent" /\ row'[m].status = "sent"
                     THEN [recorded EXCEPT ![m] = recorded[m] + 1] ELSE recorded
      /\ Leave(w)
      /\ UNCHANGED <<current, audit, open>>
  BY DEF Apply
<1>2. TypeOK /\ MessageInv /\ WorkerInv /\ ClaimsDiffer
  BY DEF IInv
<1>3. /\ m \in Messages /\ token[w] \in 1 .. row[m].attempts
      /\ Holds(row[m], token[w]) => row[m].status = "sending"
      /\ result[w] = "sent" => (Holds(row[m], token[w]) => token[w] \in open[m])
      /\ result[w] # "none"
      /\ result[w] \notin {"sent", "raised"} => token[w] \notin open[m]
      /\ RowInv(row[m]) /\ row[m] \in OutboundRow
  BY <1>1, <1>2 DEF WorkerInv, MessageInv, RowInv
<1>4. row'[m] = r
  BY <1>1, <1>2, <1>3 DEF TypeOK
<1>5. CASE r = row[m]
  <2>1. recorded' = recorded
    BY <1>1, <1>4, <1>5
  <2>2. QuietRow(m)
    BY <1>3, <1>4, <1>5, SameQuiet
  <2>. HIDE DEF m, r
  <2>. QED  BY <1>1, <1>3, <1>5, <2>1, <2>2, LeaveInv
<1>6. CASE r # row[m]
  <2>1. row[m].status = "sending" /\ row[m].token = token[w] /\ Holds(row[m], token[w])
    BY <1>3, <1>6 DEF Applied, Holds
  <2>2. token[w] = row[m].attempts /\ row[m].attempts > 0
    BY <1>3, <2>1 DEF RowInv
  <2>3. CASE result[w] = "sent"
    <3>1. r = Released(row[m], "sent")
      BY <2>1, <2>3 DEF Applied
    <3>2. r.status = "sent" /\ RowInv(r)
      BY <1>3, <2>2, <3>1, ReleasedFacts, SMT DEF OutboundStatus
    <3>3. recorded' = [recorded EXCEPT ![m] = recorded[m] + 1]
      BY <1>1, <1>4, <2>1, <3>2
    <3>4. /\ stage' = [stage EXCEPT ![w] = "idle"] /\ message' = [message EXCEPT ![w] = NoMessage]
          /\ token' = [token EXCEPT ![w] = 0] /\ result' = [result EXCEPT ![w] = "none"]
      BY <1>1 DEF Leave
    <3>5. \A v \in Workers : \/ v = w /\ stage'[v] = "idle"
                             \/ v # w /\ WorkerStays(v)
      BY <1>2, <3>4 DEF TypeOK, WorkerStays
    <3>6. \A v \in Workers : stage'[v] # "idle" /\ message[v] = m => token[v] # row[m].attempts
      BY <1>1, <1>2, <2>2, <3>5 DEF ClaimsDiffer, WorkerStays
    <3>7. TypeOK'
      <4>1. r \in OutboundRow /\ recorded[m] + 1 \in Nat
        BY <1>2, <1>3, <3>2, SMT DEF RowInv, TypeOK
      <4>. HIDE DEF m, r
      <4>2. row' \in [Messages -> OutboundRow] /\ recorded' \in [Messages -> Nat]
        BY <1>1, <1>2, <1>3, <3>3, <4>1 DEF TypeOK
      <4>. QED  BY <1>1, <1>2, <3>4, <4>2 DEF TypeOK
    <3>8. row[m].attempts \in open[m]
      BY <1>3, <2>1, <2>2, <2>3
    <3>9. row' = [row EXCEPT ![m] = Released(row[m], "sent")]
      BY <1>1, <3>1
    <3>. HIDE DEF m, r
    <3>. QED  BY <1>1, <1>3, <2>1, <3>3, <3>5, <3>6, <3>7, <3>8, <3>9, SentRowInv
  <2>4. CASE result[w] # "sent"
    <3>1. QuietRow(m) /\ row'[m].status # "sent" /\ Present(row[m]) /\ RowInv(r)
      <4>1. CASE result[w] = "raised"
        <5>1. r = Released(row[m], "uncertain")
          BY <2>1, <4>1 DEF Applied
        <5>. QED  BY <1>3, <1>4, <2>1, <2>2, <5>1, ReleasedQuiet DEF QuietRow, Present
      <4>2. CASE result[w] = "permanent_failure"
        <5>1. r = Released(row[m], "dead_letter")
          BY <2>1, <4>2 DEF Applied
        <5>. QED  BY <1>3, <1>4, <2>1, <5>1, ReleasedQuiet DEF QuietRow, Present, Failed
      <4>3. CASE result[w] \notin {"raised", "permanent_failure"}
        <5>1. r = [Released(row[m], RetryStatus(row[m])) EXCEPT !.wait = RetryBackoff]
          BY <2>1, <2>4, <4>3 DEF Applied
        <5>2. RetryStatus(row[m]) \in {"retrying", "dead_letter"}
          BY DEF RetryStatus
        <5>3. RetryStatus(row[m]) \in
                OutboundStatus \ {"absent", "leased", "sending", "uncertain", "sent"}
          BY <5>2 DEF OutboundStatus, Failed
        <5>4. RowInv(r) /\ r.status = RetryStatus(row[m]) /\ r.attempts = row[m].attempts
          BY <1>3, <5>1, <5>3, WaitingFacts, OutboundAssumption, SMT
        <5>5. open[m] = {}
          BY <1>2, <1>3, <2>2, <2>4, <4>3, SMT DEF MessageInv
        <5>. QED  BY <1>4, <2>1, <5>2, <5>4, <5>5 DEF QuietRow, Present
      <4>. QED  BY <4>1, <4>2, <4>3
    <3>2. recorded' = recorded
      BY <1>1, <3>1
    <3>. HIDE DEF m, r
    <3>. QED  BY <1>1, <1>3, <3>1, <3>2, LeaveInv
  <2>. QED  BY <2>3, <2>4
<1>. QED  BY <1>5, <1>6

LEMMA ResolveInv ==
    ASSUME IInv, NEW k \in RequestKeys, NEW m \in Messages, NEW x \in Resolutions,
           Resolve(k, m, x)
    PROVE  IInv'
<1>1. /\ audit[k] = NoAudit
      /\ row[m].status = "uncertain"
      /\ audit' = [audit EXCEPT ![k] = <<m, x>>]
      /\ UNCHANGED <<current, stage, message, token, result>>
  BY DEF Resolve, Record, Existing, worker
<1>2. TypeOK /\ MessageInv /\ WorkerInv /\ ClaimsDiffer /\ SentInv /\ OneMessagePerKey
  BY DEF IInv
<1>3. RowInv(row[m]) /\ row[m].attempts > 0 /\ row[m] \in OutboundRow
  BY <1>1, <1>2 DEF MessageInv, RowInv
<1>4. /\ audit' \in [RequestKeys -> (Messages \X Resolutions) \cup {NoAudit}]
      /\ audit'[k] = <<m, x>>
      /\ \A j \in RequestKeys : audit[j] # NoAudit => audit'[j] = audit[j]
  BY <1>1, <1>2 DEF TypeOK
<1>5. \A v \in Workers : WorkerStays(v)
  BY <1>1 DEF WorkerStays
<1>6. CASE x = "sent"
  <2>1. /\ row' = [row EXCEPT ![m] = Released(row[m], "sent")]
        /\ recorded' = [recorded EXCEPT ![m] = recorded[m] + 1] /\ open' = open
    BY <1>6 DEF Resolve
  <2>2. Released(row[m], "sent") \in OutboundRow
    BY <1>3, ReleasedFacts DEF OutboundStatus, RowInv
  <2>3. row' \in [Messages -> OutboundRow] /\ recorded' \in [Messages -> Nat]
    BY <1>2, <2>1, <2>2, SMT DEF TypeOK
  <2>4. TypeOK'
    BY <1>1, <1>2, <1>4, <2>1, <2>3 DEF TypeOK
  <2>. QED  BY <1>1, <1>4, <1>5, <1>6, <2>1, <2>4, SentRowInv
<1>7. CASE x = "failed"
  <2>1. /\ row' = [row EXCEPT ![m] = Released(row[m], "dead_letter")]
        /\ recorded' = recorded /\ open' = open
    BY <1>7 DEF Resolve
  <2>2. row'[m] = Released(row[m], "dead_letter") /\ \A n \in Messages : n # m => row'[n] = row[n]
    BY <1>2, <2>1 DEF TypeOK
  <2>3. QuietRow(m) /\ row'[m] \in OutboundRow
    BY <1>1, <2>2, ReleasedQuiet, SMT DEF Failed, QuietRow, RowInv
  <2>4. TypeOK'
    <3>1. row' \in [Messages -> OutboundRow]
      BY <1>2, <2>1, <2>2, <2>3 DEF TypeOK
    <3>. QED  BY <1>1, <1>2, <1>4, <2>1, <3>1 DEF TypeOK
  <2>5. OneMessagePerKey'
    <3>1. \A n \in Messages : Present(row'[n]) => Present(row[n])
      BY <1>1, <2>2 DEF Present
    <3>. QED  BY <1>2, <3>1, SameKeys
  <2>6. \A n \in Messages : QuietRow(n)
    BY <2>2, <2>3, SameQuiet
  <2>. QED  BY <1>4, <1>5, <2>1, <2>4, <2>5, <2>6, QuietInv
<1>8. CASE x = "not_sent"
  <2>. DEFINE r == [Released(row[m], "queued") EXCEPT !.wait = 0]
  <2>1. /\ row' = [row EXCEPT ![m] = r]
        /\ recorded' = recorded /\ open' = [open EXCEPT ![m] = {}]
    BY <1>8 DEF Resolve
  <2>2. RowInv(r) /\ r.status = "queued" /\ r.attempts = row[m].attempts /\ r \in OutboundRow
    BY <1>3, WaitingFacts, SMT DEF OutboundStatus, Failed, RowInv
  <2>. HIDE DEF r
  <2>3. /\ row'[m] = r /\ open'[m] = {}
        /\ \A n \in Messages : n # m => row'[n] = row[n] /\ open'[n] = open[n]
    BY <1>2, <2>1 DEF TypeOK
  <2>4. TypeOK'
    <3>1. row' \in [Messages -> OutboundRow] /\ open' \in [Messages -> SUBSET Nat]
      BY <1>2, <2>1, <2>2 DEF TypeOK
    <3>. QED  BY <1>1, <1>2, <1>4, <2>1, <3>1 DEF TypeOK
  <2>5. \A n \in Messages : PredecessorSent(n) => PredecessorSent(n)'
    BY <1>1, <2>3 DEF PredecessorSent
  <2>6. MessageInv'
    <3>1. ASSUME NEW n \in Messages
          PROVE  /\ RowInv(row'[n])
                 /\ open'[n] \subseteq {row'[n].attempts}
                 /\ open'[n] # {} => row'[n].attempts > 0
                 /\ row'[n].status \in {"absent", "queued", "retrying", "leased"} => open'[n] = {}
                 /\ recorded'[n] = IF row'[n].status = "sent" THEN 1 ELSE 0
                 /\ Position[n] > 1 /\ row'[n].attempts > 0 => PredecessorSent(n)'
      <4>1. CASE n = m
        BY <1>1, <1>2, <2>1, <2>2, <2>3, <2>5, <4>1, SMT DEF MessageInv
      <4>2. CASE n # m
        BY <1>2, <2>1, <2>3, <2>5, <4>2 DEF MessageInv
      <4>. QED  BY <4>1, <4>2
    <3>. QED  BY <3>1 DEF MessageInv
  <2>7. WorkerInv'
    <3>1. \A v \in Workers : stage[v] # "idle" =>
            /\ message[v] \in Messages
            /\ row'[message[v]].attempts = row[message[v]].attempts
            /\ Holds(row'[message[v]], token[v]) =>
                 row'[message[v]] = row[message[v]] /\ open'[message[v]] = open[message[v]]
            /\ open'[message[v]] \subseteq open[message[v]]
      BY <1>2, <2>2, <2>3 DEF WorkerInv, Holds
    <3>2. SUFFICES ASSUME NEW v \in Workers, stage[v] # "idle"
            PROVE  /\ message[v] \in Messages
                   /\ token[v] \in 1 .. row'[message[v]].attempts
                   /\ stage[v] \in {"calling", "applying"} /\ Holds(row'[message[v]], token[v]) =>
                        row'[message[v]].status = "sending"
                   /\ \/ stage[v] = "calling"
                      \/ stage[v] = "applying" /\ result[v] = "sent"
                      => (Holds(row'[message[v]], token[v]) => token[v] \in open'[message[v]])
                   /\ stage[v] = "applying" =>
                        /\ result[v] # "none"
                        /\ result[v] \notin {"sent", "raised"} =>
                             token[v] \notin open'[message[v]]
      BY <1>1 DEF WorkerInv
    <3>. QED  BY <1>2, <3>1, <3>2 DEF WorkerInv
  <2>8. ClaimsDiffer'
    BY <1>1, <1>2 DEF ClaimsDiffer
  <2>9. SentInv'
    <3>1. SUFFICES ASSUME NEW n \in Messages, row'[n].status = "sent"
                   PROVE  \/ \E j \in RequestKeys : audit'[j] = <<n, "sent">>
                          \/ /\ row'[n].attempts \in open'[n]
                             /\ \A v \in Workers : Busy(v, n)' => token'[v] # row'[n].attempts
      BY DEF SentInv
    <3>2. row'[n] = row[n] /\ open'[n] = open[n] /\ row[n].status = "sent"
      BY <2>2, <2>3, <3>1
    <3>3. ASSUME NEW j \in RequestKeys, audit[j] = <<n, "sent">> PROVE audit'[j] = <<n, "sent">>
      BY <1>4, <3>3, OutboundAssumption, SMT DEF NoAudit
    <3>4. \A v \in Workers : Busy(v, n)' => Busy(v, n) /\ token'[v] = token[v]
      BY <1>1 DEF Busy
    <3>5. \/ \E j \in RequestKeys : audit[j] = <<n, "sent">>
          \/ /\ row[n].attempts \in open[n]
             /\ \A v \in Workers : Busy(v, n) => token[v] # row[n].attempts
      BY <1>2, <3>2 DEF SentInv
    <3>. QED  BY <3>2, <3>3, <3>4, <3>5
  <2>10. OneMessagePerKey'
    <3>1. \A n \in Messages : Present(row'[n]) => Present(row[n])
      BY <1>1, <2>3 DEF Present
    <3>. QED  BY <1>2, <3>1, SameKeys
  <2>. QED  BY <2>4, <2>6, <2>7, <2>8, <2>9, <2>10 DEF IInv
<1>. QED  BY <1>6, <1>7, <1>8 DEF Resolutions

----------------------------------------------------------------------------

LEMMA NextInv == ASSUME IInv, Next PROVE IInv'
<1>1. CASE \E batch \in Batches : EnqueueMany(batch)
  BY <1>1, EnqueueInv, OutboundAssumption DEF EnqueueMany
<1>2. CASE \E m \in Messages : EnqueueOutbound(m)
  BY <1>2, EnqueueInv DEF EnqueueOutbound
<1>3. CASE \E r \in References : Supersede(r)
  BY <1>3, SupersedeInv
<1>4. CASE \E w \in Workers, m \in Messages : Claim(w, m)
  BY <1>4, ClaimInv
<1>5. ASSUME NEW w \in Workers,
             PollNothing(w) \/ Heartbeat(w) \/ Abandon(w) \/ Step(w) \/ ApplyRaises(w)
      PROVE  IInv'
  <2>1. CASE Abandon(w)
    BY <2>1, AbandonInv DEF Abandon
  <2>2. CASE Step(w)
    BY <2>2, MarkSendingInv, SenderEndsInv, ApplyInv, OutboundAssumption DEF Step
  <2>. QED  BY <1>5, <2>1, <2>2, PollInv, HeartbeatInv, ApplyRaisesInv
<1>6. CASE \E k \in RequestKeys, m \in Messages, x \in Resolutions : Resolve(k, m, x)
  BY <1>6, ResolveInv
<1>7. CASE Tick
  BY <1>7, TickInv
<1>. QED  BY <1>1, <1>2, <1>3, <1>4, <1>5, <1>6, <1>7 DEF Next

LEMMA Inductive == Spec => []IInv
<1>1. ASSUME IInv, UNCHANGED vars PROVE IInv'
  <2>1. UNCHANGED <<row, current, audit, stage, message, token, result, recorded, open>>
    BY <1>1 DEF vars, worker
  <2>2. \A m \in Messages : QuietRow(m) /\ (Present(row'[m]) => Present(row[m]))
    BY <1>1, <2>1, SameQuiet
  <2>3. \A v \in Workers : WorkerStays(v)
    BY <2>1 DEF WorkerStays
  <2>4. TypeOK' /\ OneMessagePerKey'
    BY <1>1, <2>1 DEF IInv, TypeOK, OneMessagePerKey
  <2>. QED  BY <1>1, <2>1, <2>2, <2>3, <2>4, QuietInv
<1>. QED  BY InitInv, NextInv, <1>1, PTL DEF Spec

\* Delivery is accounted for: rows of one message each per idempotency key; the parts of a
\* text in order; a conversation record exactly for what was sent; and sent only by the
\* call of the latest claim or by an operator (mark_sent, resolve_outbound).
THEOREM DeliveryAccounted == Spec => []SentAccounted
<1>1. ASSUME IInv PROVE SentAccounted
  <2>1. TypeOK /\ MessageInv /\ SentInv /\ OneMessagePerKey
    BY <1>1 DEF IInv
  <2>2. PartsInOrder
    <3>1. ASSUME NEW m \in Messages, Position[m] > 1, open[m] # {} \/ row[m].status = "sent"
          PROVE  PredecessorSent(m)
      BY <2>1, <3>1 DEF MessageInv, RowInv
    <3>. QED  BY <3>1 DEF PartsInOrder, PredecessorSent
  <2>3. RecordedWhenSent
    BY <2>1 DEF MessageInv, RecordedWhenSent
  <2>4. SentByLatestClaim
    BY <2>1 DEF SentInv, SentByLatestClaim
  <2>. QED  BY <2>1, <2>2, <2>3, <2>4 DEF SentAccounted
<1>. QED  BY Inductive, <1>1, PTL

\* The sender is called by mark_sending alone, and what mark_sending finds leased has no
\* open call: a send is not repeated on a guess.
THEOREM NeverResendsBlindly == Spec => NoBlindResend
<1>1. ASSUME IInv, Next, NEW w \in Workers, stage[w] = "claimed", stage'[w] = "calling"
      PROVE  open[message[w]] = {}
  <2>1. TypeOK /\ MessageInv /\ WorkerInv
    BY <1>1 DEF IInv
  <2>2. PICK v \in Workers : MarkSending(v) /\ stage'[w] # stage[w]
    <3>1. ASSUME NEW v \in Workers, Leave(v) \/ stage' = [stage EXCEPT ![v] = "applying"]
                   \/ stage' = [stage EXCEPT ![v] = "claimed"]
          PROVE  stage'[w] # "calling"
      BY <1>1, <2>1, <3>1 DEF Leave, TypeOK
    <3>2. ASSUME NEW v \in Workers
          PROVE  /\ ~Abandon(v) /\ ~Apply(v)
                 /\ \A m \in Messages : ~Claim(v, m)
                 /\ \A r \in Results : ~SenderEnds(v, r)
      BY <1>1, <3>1 DEF Abandon, Apply, Claim, SenderEnds
    <3>3. stage' # stage
      BY <1>1
    <3>4. /\ \A batch \in Batches : ~EnqueueMany(batch)
          /\ \A m \in Messages : ~EnqueueOutbound(m)
          /\ \A r \in References : ~Supersede(r)
      BY <3>3 DEF EnqueueMany, EnqueueOutbound, Enqueue, Supersede, worker
    <3>5. /\ \A v \in Workers : ~PollNothing(v) /\ ~Heartbeat(v) /\ ~ApplyRaises(v)
          /\ \A k \in RequestKeys, m \in Messages, x \in Resolutions : ~Resolve(k, m, x)
          /\ ~Tick
      BY <3>3 DEF PollNothing, Heartbeat, ApplyRaises, Resolve, Tick, worker
    <3>. QED  BY <1>1, <3>2, <3>4, <3>5 DEF Next, Step
  <2>3. v = w
    <3>1. Leave(v) \/ stage' = [stage EXCEPT ![v] = "calling"]
      BY <2>2 DEF MarkSending
    <3>. QED  BY <2>1, <2>2, <3>1 DEF TypeOK, Leave
  <2>4. row[message[w]].status = "leased"
    <3>1. Leave(w) \/ row[message[w]].status = "leased"
      BY <2>2, <2>3 DEF MarkSending
    <3>. QED  BY <1>1, <2>1, <3>1 DEF Leave, TypeOK
  <2>. QED  BY <1>1, <2>1, <2>4 DEF MessageInv, WorkerInv
<1>2. ASSUME IInv, [Next]_vars
      PROVE  [\A w \in Workers : stage[w] = "claimed" /\ stage'[w] = "calling" =>
                open[message[w]] = {}]_vars
  <2>1. CASE Next
    BY <1>1, <1>2, <2>1
  <2>. QED  BY <1>2, <2>1
<1>. QED  BY Inductive, <1>2, PTL DEF Spec, NoBlindResend

\* What one step may do to a row's status.
RowMovesOn(m) ==
    \/ row'[m].status = row[m].status
    \/ /\ row[m].status \notin {"sent", "uncertain"} \cup Failed
       /\ row'[m].status # "sending"
    \/ row[m].status = "leased" /\ IsCurrent(m)
    \/ /\ row[m].status = "uncertain" /\ row'[m].status # "sending"
       /\ \E k \in RequestKeys : audit[k] = NoAudit /\ audit'[k] # NoAudit

LEMMA CleanedMovesOn ==
    ASSUME IInv, NEW m \in Messages, row'[m] = Cleaned(m)
    PROVE  RowMovesOn(m)
<1>1. RowInv(row[m])
  BY DEF IInv, MessageInv
<1>. QED  BY <1>1, CleanedFacts DEF RowMovesOn, Failed

LEMMA QueueMovesOn ==
    ASSUME IInv,
           \/ \E batch \in SUBSET Messages : Enqueue(batch)
           \/ \E x \in References : Supersede(x)
           \/ \E w \in Workers : PollNothing(w)
           \/ \E w \in Workers, m \in Messages : Claim(w, m)
           \/ Tick,
           NEW m \in Messages
    PROVE  RowMovesOn(m)
<1>1. RowInv(row[m]) /\ MessageInv /\ TypeOK
  BY DEF IInv, MessageInv
<1>2. ASSUME NEW batch \in SUBSET Messages, Enqueue(batch) PROVE RowMovesOn(m)
  <2>1. row'[m] = row[m] \/ (~Present(row[m]) /\ row'[m] = NewRow(0))
    BY <1>2 DEF Enqueue
  <2>. QED  BY <2>1, SMT DEF RowMovesOn, Present, NewRow, Failed
<1>3. ASSUME NEW x \in References, Supersede(x) PROVE RowMovesOn(m)
  <2>1. \/ row'[m] = row[m]
        \/ /\ row[m].status \in {"queued", "retrying", "leased"}
           /\ row'[m] = Released(row[m], "cancelled")
    BY <1>3 DEF Supersede
  <2>2. Released(row[m], "cancelled").status = "cancelled"
    BY <1>1, ReleasedFacts DEF OutboundStatus, Failed
  <2>. QED  BY <2>1, <2>2 DEF RowMovesOn, Failed
<1>4. ASSUME NEW w \in Workers, PollNothing(w) PROVE RowMovesOn(m)
  <2>1. row'[m] = Cleaned(m)
    BY <1>4 DEF PollNothing
  <2>. QED  BY <2>1, CleanedMovesOn
<1>5. ASSUME NEW w \in Workers, NEW n \in Messages, Claim(w, n) PROVE RowMovesOn(m)
  <2>1. Due(n) /\ row'[m] = IF m = n THEN Claimed(row[m]) ELSE Cleaned(m)
    BY <1>5 DEF Claim
  <2>2. CASE m = n
    <3>1. row[m].status \in {"queued", "retrying", "leased"}
      BY <1>1, <2>1, <2>2, DueFacts
    <3>2. row'[m].status = "leased"
      BY <1>1, <2>1, <2>2, ClaimedFacts
    <3>. QED  BY <3>1, <3>2 DEF RowMovesOn, Failed
  <2>3. CASE m # n
    BY <2>1, <2>3, CleanedMovesOn
  <2>. QED  BY <2>2, <2>3
<1>6. CASE Tick
  <2>1. row'[m] = Elapse(row[m])
    BY <1>6 DEF Tick
  <2>. QED  BY <1>1, <2>1, ElapseFacts DEF RowMovesOn
<1>. QED  BY <1>2, <1>3, <1>4, <1>5, <1>6

LEMMA WorkerMovesOn ==
    ASSUME IInv, NEW w \in Workers,
           Heartbeat(w) \/ Abandon(w) \/ Step(w) \/ ApplyRaises(w), NEW m \in Messages
    PROVE  RowMovesOn(m)
<1>1. RowInv(row[m]) /\ MessageInv /\ TypeOK /\ row[m] \in OutboundRow
  BY DEF IInv, MessageInv, RowInv
<1>2. CASE row' = row
  BY <1>2 DEF RowMovesOn
<1>3. CASE Heartbeat(w)
  <2>1. row'[m].status = row[m].status
    BY <1>1, <1>3 DEF Heartbeat, TypeOK, OutboundRow
  <2>. QED  BY <2>1 DEF RowMovesOn
<1>4. CASE MarkSending(w)
  <2>1. \/ row' = row
        \/ /\ row[message[w]].status = "leased"
           /\ row' = [row EXCEPT ![message[w]] = Released(row[message[w]], "cancelled")]
        \/ /\ row[message[w]].status = "leased" /\ IsCurrent(message[w])
           /\ row' = [row EXCEPT ![message[w]].status = "sending"]
    BY <1>4 DEF MarkSending
  <2>2. Released(row[m], "cancelled").status = "cancelled"
    BY <1>1, ReleasedFacts DEF OutboundStatus, Failed
  <2>3. CASE m # message[w]
    <3>1. row'[m] = row[m]
      BY <1>1, <2>1, <2>3 DEF TypeOK
    <3>. QED  BY <3>1 DEF RowMovesOn
  <2>4. CASE m = message[w] /\ row' = [row EXCEPT ![m] = Released(row[m], "cancelled")]
              /\ row[m].status = "leased"
    <3>1. row'[m] = Released(row[m], "cancelled")
      BY <1>1, <2>4 DEF TypeOK
    <3>. QED  BY <2>2, <2>4, <3>1 DEF RowMovesOn, Failed
  <2>. QED  BY <1>2, <2>1, <2>3, <2>4 DEF RowMovesOn
<1>5. CASE Apply(w)
  <2>. DEFINE r == Applied(row[m], token[w], result[w])
  <2>1. row'[m] = row[m] \/ (m = message[w] /\ row'[m] = r)
    BY <1>1, <1>5 DEF Apply, TypeOK
  <2>2. CASE Holds(row[m], token[w])
    <3>1. \/ r = row[m] \/ r = Released(row[m], "sent") \/ r = Released(row[m], "uncertain")
          \/ r = Released(row[m], "dead_letter")
          \/ r = [Released(row[m], RetryStatus(row[m])) EXCEPT !.wait = RetryBackoff]
      BY DEF Applied
    <3>2. row[m].attempts > 0 /\ row[m].status \in {"leased", "sending"}
      BY <1>1, <2>2 DEF Holds, RowInv
    <3>3. /\ Released(row[m], "sent").status = "sent"
          /\ Released(row[m], "uncertain").status = "uncertain"
          /\ Released(row[m], "dead_letter").status = "dead_letter"
      BY <1>1, <3>2, ReleasedFacts DEF OutboundStatus, Failed
    <3>4. [Released(row[m], RetryStatus(row[m])) EXCEPT !.wait = RetryBackoff].status
            = RetryStatus(row[m])
      <4>1. RetryStatus(row[m]) \in
              OutboundStatus \ {"absent", "leased", "sending", "uncertain", "sent"}
        BY DEF RetryStatus, OutboundStatus, Failed
      <4>2. RetryBackoff \in Nat
        BY OutboundAssumption
      <4>. DEFINE q == [Released(row[m], RetryStatus(row[m])) EXCEPT !.wait = RetryBackoff]
      <4>3. RowInv(q) /\ q.status = RetryStatus(row[m]) /\ q.attempts = row[m].attempts
        BY <1>1, <4>1, <4>2, WaitingFacts, SMT
      <4>. QED  BY <4>3
    <3>5. RetryStatus(row[m]) # "sending"
      BY DEF RetryStatus
    <3>. HIDE DEF r
    <3>6. r.status = row[m].status \/ r.status # "sending"
      BY <3>1, <3>3, <3>4, <3>5
    <3>. QED  BY <2>1, <3>2, <3>6 DEF RowMovesOn, Failed
  <2>3. CASE ~Holds(row[m], token[w])
    <3>1. r = row[m]
      BY <2>3 DEF Applied, Holds
    <3>. QED  BY <2>1, <3>1 DEF RowMovesOn
  <2>. QED  BY <2>2, <2>3
<1>. QED  BY <1>2, <1>3, <1>4, <1>5 DEF Step, SenderEnds, Abandon, ApplyRaises

LEMMA ResolveMovesOn ==
    ASSUME IInv, NEW k \in RequestKeys, NEW n \in Messages, NEW x \in Resolutions,
           Resolve(k, n, x), NEW m \in Messages
    PROVE  RowMovesOn(m)
<1>1. RowInv(row[m]) /\ TypeOK /\ row[n].status = "uncertain" /\ audit[k] = NoAudit
  BY DEF IInv, MessageInv, Resolve, Existing
<1>2. CASE m # n
  <2>1. row'[m] = row[m]
    BY <1>1, <1>2 DEF Resolve, TypeOK
  <2>. QED  BY <2>1 DEF RowMovesOn
<1>3. CASE m = n
  <2>1. \/ row'[m] = Released(row[m], "sent") \/ row'[m] = Released(row[m], "dead_letter")
        \/ row'[m] = [Released(row[m], "queued") EXCEPT !.wait = 0]
    BY <1>1, <1>3 DEF Resolve, TypeOK, Resolutions
  <2>2. row[m].attempts > 0
    BY <1>1, <1>3 DEF RowInv
  <2>3. /\ Released(row[m], "sent").status = "sent"
        /\ Released(row[m], "dead_letter").status = "dead_letter"
    BY <1>1, <2>2, ReleasedFacts DEF OutboundStatus, Failed
  <2>4. [Released(row[m], "queued") EXCEPT !.wait = 0].status = "queued"
    <3>1. "queued" \in OutboundStatus \ {"absent", "leased", "sending", "uncertain", "sent"}
      BY DEF OutboundStatus
    <3>2. 0 \in Nat
      OBVIOUS
    <3>. DEFINE q == [Released(row[m], "queued") EXCEPT !.wait = 0]
    <3>3. RowInv(q) /\ q.status = "queued" /\ q.attempts = row[m].attempts
      BY <1>1, <3>1, <3>2, WaitingFacts, SMT
    <3>. QED  BY <3>3
  <2>5. audit'[k] # NoAudit
    <3>1. audit'[k] = <<n, x>>
      BY <1>1 DEF Resolve, Record, TypeOK
    <3>. QED  BY <3>1, OutboundAssumption, SMT DEF NoAudit
  <2>. QED  BY <1>1, <1>3, <2>1, <2>3, <2>4, <2>5 DEF RowMovesOn
<1>. QED  BY <1>2, <1>3

\* What a row may become: sent and dead_letter are final, uncertain is left only by an
\* audited resolution, and a superseded reference admits no further send (mark_sending,
\* resolve_outbound, supersede).
THEOREM StatusesMoveOn == Spec => RowsMoveOn
<1>1. ASSUME IInv, Next, NEW m \in Messages PROVE RowMovesOn(m)
  BY <1>1, QueueMovesOn, WorkerMovesOn, ResolveMovesOn, OutboundAssumption
  DEF Next, EnqueueMany, EnqueueOutbound
<1>2. ASSUME NEW m \in Messages, RowMovesOn(m)
      PROVE  /\ row[m].status # "sending" /\ row'[m].status = "sending" =>
                  (Reference[m] # NoReference => current[Reference[m]])
             /\ row[m].status \in {"sent"} \cup Failed => row'[m].status = row[m].status
             /\ row[m].status = "uncertain" /\ row'[m].status # "uncertain" =>
                  \E k \in RequestKeys : audit[k] = NoAudit /\ audit'[k] # NoAudit
  BY <1>2 DEF RowMovesOn, IsCurrent, Failed
<1>3. ASSUME IInv, [Next]_vars
      PROVE  [\A m \in Messages :
                /\ row[m].status # "sending" /\ row'[m].status = "sending" =>
                     (Reference[m] # NoReference => current[Reference[m]])
                /\ row[m].status \in {"sent"} \cup Failed => row'[m].status = row[m].status
                /\ row[m].status = "uncertain" /\ row'[m].status # "uncertain" =>
                     \E k \in RequestKeys : audit[k] = NoAudit /\ audit'[k] # NoAudit]_vars
  <2>1. CASE Next
    BY <1>1, <1>2, <1>3, <2>1
  <2>. QED  BY <1>3, <2>1
<1>. QED  BY Inductive, <1>3, PTL DEF Spec, RowsMoveOn

----------------------------------------------------------------------------
\* DialogueTasks, for any inputs and outbound messages, any number of tasks, revisions and
\* routes of a plan.

CONSTANTS Inputs, Actor, Questions, Texts, None, MaxTasks, MaxRevision, MaxRoutes, PageSize
VARIABLES db, pager

D == INSTANCE DialogueTasks

Tables == [task : [D!Tasks -> D!TaskRow], question : [Questions -> D!QuestionRow],
           input : [Inputs -> D!InputRow], history : Seq(D!Entry),
           focus : [D!Actors -> 0 .. MaxTasks], outbound : [Messages -> D!OutboundRow],
           local : [Inputs -> 0 .. MaxTasks]]

\* The rows of the tables d.
TaskOK(x) == (x.status = "absent" => x.revision = 0) /\ (x.status = "active" => x.revision = 1)
QuestionOK(x) == /\ x.status = "absent" => x.revision = 0
                 /\ x.status = "pending" => x.revision <= MaxRevision

\* An input x belongs to a task that exists, and follows its question.
InputOK(x, questions, tasks) ==
    /\ ~x.known => x.task = 0 /\ x.question = None
    /\ x.task # 0 => tasks[x.task].status # "absent"
    /\ x.question # None =>
         LET q == questions[x.question] IN
         /\ q.status # "absent"
         /\ x.task = 0 <=> q.status = "pending"
         /\ q.status = "resolved" => x.task = q.resolved

\* A message x of a question is of its present generation or an earlier one, and shows the
\* candidates of its generation.
MessageOK(x, questions) ==
    x.question # None =>
        LET q == questions[x.question] IN
        /\ q.status # "absent"
        /\ x.revision <= q.revision
        /\ q.status = "pending" /\ x.revision = q.revision => x.shown = q.offers

\* Every message of a history is of one of the task's inputs, or was sent, and is there once.
EntryOK(x, inputs, messages) ==
    /\ x.role = "user" => x.source \in Inputs /\ inputs[x.source].task = x.task
    /\ x.role = "assistant" => x.source \in Messages /\ messages[x.source].status = "sent"
HistoryOK(h, inputs, messages) ==
    /\ \A n \in 1 .. Len(h) : EntryOK(h[n], inputs, messages)
    /\ \A n, k \in 1 .. Len(h) : h[n].source = h[k].source => n = k

TablesOK(d) ==
    /\ d \in Tables
    /\ \A t \in D!Tasks : TaskOK(d.task[t])
    /\ \A q \in Questions : QuestionOK(d.question[q])
    /\ \A i \in Inputs : InputOK(d.input[i], d.question, d.task)
    /\ \A m \in Messages : MessageOK(d.outbound[m], d.question)
    /\ HistoryOK(d.history, d.input, d.outbound)

\* How the tables d become the tables e, in one step or in a whole plan.
TaskLasts(x, y) ==
    x.status # "absent" => /\ y.status # "absent"
                           /\ y.status = "active" \/ x.status \in D!Terminal => y = x
QuestionLasts(x, y) ==
    /\ x.status # "absent" => y.status # "absent"
    /\ x.status = "resolved" => y = x
InputLasts(x, y) == x.task # 0 => y.task = x.task
HistoryLasts(h, g) == Len(h) <= Len(g) /\ \A n \in 1 .. Len(h) : g[n] = h[n]

\* What is new in the history g is not said to a task that was finished before.
NewsOK(h, g, tasks) ==
    \A n \in Len(h) + 1 .. Len(g) :
        g[n].role = "user" => tasks[g[n].task].status \notin D!Terminal

Lasts(d, e) ==
    /\ \A t \in D!Tasks : TaskLasts(d.task[t], e.task[t])
    /\ \A q \in Questions : QuestionLasts(d.question[q], e.question[q])
    /\ \A i \in Inputs : InputLasts(d.input[i], e.input[i])
    /\ HistoryLasts(d.history, e.history)
    /\ NewsOK(d.history, e.history, d.task)

\* A plan sends nothing and confirms nothing.
MessageStays(x, y) ==
    /\ y.question = x.question /\ y.revision = x.revision
    /\ y.confirmed = x.confirmed /\ y.shown = x.shown
MessagesStay(d, e) == \A m \in Messages : MessageStays(d.outbound[m], e.outbound[m])

\* A question that is decided for a task that existed was decided for one that was active
\* and that a confirmed message of the question offered as it was.
Offered(d, q, t) ==
    /\ d.task[t].status = "active"
    /\ \E m \in Messages : /\ d.outbound[m].question = q /\ d.outbound[m].confirmed
                           /\ <<t, d.task[t].revision>> \in d.outbound[m].shown
Chooses(d, e) ==
    \A q \in Questions :
        d.question[q].status = "pending" /\ e.question[q].status = "resolved" =>
            LET t == e.question[q].resolved IN
            t \in D!Tasks /\ (d.task[t].status # "absent" => Offered(d, q, t))

Changes(d, e) == TablesOK(e) /\ Lasts(d, e) /\ MessagesStay(d, e) /\ Chooses(d, e)


LEMMA Constants ==
    ASSUME D!DialogueAssumption
    PROVE  /\ MaxTasks \in Nat /\ MaxRevision \in Nat /\ MaxRevision # 0 /\ MaxRoutes \in Nat
           /\ None \notin Inputs /\ None \notin Questions /\ None \notin Messages
           /\ \A i \in Inputs : i \notin Messages
           /\ D!Tasks \subseteq Nat /\ 0 \notin D!Tasks
           /\ 0 .. MaxTasks = {0} \cup D!Tasks
           /\ 0 \in 0 .. MaxTasks /\ 1 \in 0 .. MaxRevision
<1>1. /\ MaxTasks \in Nat /\ MaxRevision \in Nat /\ MaxRevision # 0 /\ MaxRoutes \in Nat
      /\ None \notin Inputs /\ None \notin Questions /\ None \notin Messages
      /\ \A i \in Inputs : i \notin Messages
  BY DEF D!DialogueAssumption
<1>. QED  BY <1>1, SMTT(20) DEF D!Tasks

\* The tables that the parts of a route make.
InputRow(t, q) == [known |-> TRUE, task |-> t, question |-> q]

LEMMA Inserted ==
    ASSUME NEW d \in Tables, NEW i \in Inputs, NEW t \in 0 .. MaxTasks,
           NEW q \in Questions \cup {None}
    PROVE  LET e == D!InsertInput(d, i, t, q) IN
           /\ e \in Tables /\ e.task = d.task /\ e.question = d.question
           /\ e.input = [d.input EXCEPT ![i] = InputRow(t, q)] /\ e.history = d.history
           /\ e.focus = d.focus /\ e.outbound = d.outbound /\ e.local = d.local
<1>1. InputRow(t, q) \in D!InputRow
  BY DEF InputRow, D!InputRow
<1>2. PICK x : x = InputRow(t, q)
  OBVIOUS
<1>3. D!InsertInput(d, i, t, q) = [d EXCEPT !.input[i] = x]
  BY <1>2 DEF InputRow, D!InsertInput
<1>4. x \in D!InputRow
  BY <1>1, <1>2
<1>5. LET e == [d EXCEPT !.input[i] = x] IN
      /\ e \in Tables /\ e.task = d.task /\ e.question = d.question
      /\ e.input = [d.input EXCEPT ![i] = x] /\ e.history = d.history
      /\ e.focus = d.focus /\ e.outbound = d.outbound /\ e.local = d.local
  BY <1>4 DEF Tables
<1>. QED  BY <1>2, <1>3, <1>5

LEMMA Attached ==
    ASSUME D!DialogueAssumption, NEW d \in Tables, NEW i \in Inputs, NEW t \in D!Tasks
    PROVE  LET e == D!AttachInput(d, i, t) IN
           /\ e \in Tables /\ e.task = d.task /\ e.question = d.question
           /\ e.input = [d.input EXCEPT ![i] = InputRow(t, None)]
           /\ e.history = Append(d.history, D!UserEntry(i, t))
           /\ e.focus = d.focus /\ e.outbound = d.outbound /\ e.local = d.local
<1>1. PICK x : x = D!InsertInput(d, i, t, None)
  OBVIOUS
<1>2. /\ x \in Tables /\ x.task = d.task /\ x.question = d.question
      /\ x.input = [d.input EXCEPT ![i] = InputRow(t, None)] /\ x.history = d.history
      /\ x.focus = d.focus /\ x.outbound = d.outbound /\ x.local = d.local
  <2>1. t \in 0 .. MaxTasks /\ None \in Questions \cup {None}
    BY Constants
  <2>. QED  BY <1>1, <2>1, Inserted, SMTT(20)
<1>3. PICK h : h = Append(x.history, D!UserEntry(i, t))
  OBVIOUS
<1>4. D!UserEntry(i, t) \in D!Entry
  BY DEF D!UserEntry, D!Entry
<1>5. x.history \in Seq(D!Entry)
  BY <1>2 DEF Tables
<1>6. h \in Seq(D!Entry)
  BY <1>3, <1>4, <1>5, SMTT(20)
<1>7. D!AttachInput(d, i, t) = [x EXCEPT !.history = h]
  BY <1>1, <1>3 DEF D!AttachInput
<1>8. LET e == [x EXCEPT !.history = h] IN
      /\ e \in Tables /\ e.task = x.task /\ e.question = x.question
      /\ e.input = x.input /\ e.history = h
      /\ e.focus = x.focus /\ e.outbound = x.outbound /\ e.local = x.local
  BY <1>2, <1>6 DEF Tables
<1>. QED  BY <1>2, <1>3, <1>7, <1>8

LEMMA Focused ==
    ASSUME NEW d \in Tables, NEW i \in Inputs, NEW t \in 0 .. MaxTasks
    PROVE  LET e == D!SetFocus(d, i, t) IN
           /\ e \in Tables /\ e.task = d.task /\ e.question = d.question /\ e.input = d.input
           /\ e.history = d.history /\ e.outbound = d.outbound /\ e.local = d.local
<1>1. Actor[i] \in D!Actors
  BY DEF D!Actors
<1>. QED  BY <1>1 DEF D!SetFocus, Tables

LEMMA Least ==
    ASSUME NEW S, S \subseteq Nat, S # {}
    PROVE  \E x \in S : \A y \in S : x <= y
<1>. DEFINE R == OpToRel(<, Nat)
<1>1. IsWellFoundedOn(R, Nat)
  BY NatLessThanWellFounded
<1>2. \A x, y \in Nat : y < x => <<y, x>> \in R
  BY SMTT(20) DEF OpToRel
<1>. HIDE DEF R
<1>3. \E x \in S : \A y \in S : ~(<<y, x>> \in R)
  BY <1>1, WFMin
<1>4. \A x, y \in Nat : ~(y < x) => x <= y
  BY SMTT(20)
<1>. QED  BY <1>2, <1>3, <1>4

NewRow1 == [status |-> "active", revision |-> 1]

LEMMA FreeTask ==
    ASSUME D!DialogueAssumption, NEW d, D!CanCreate(d)
    PROVE  D!NewTask(d) \in D!Tasks /\ d.task[D!NewTask(d)].status = "absent"
<1>. DEFINE S == {t \in D!Tasks : d.task[t].status = "absent"}
<1>1. S \subseteq Nat /\ S # {}
  BY Constants DEF D!CanCreate
<1>2. PICK x \in S : \A y \in S : x <= y
  BY <1>1, Least
<1>3. ASSUME NEW u \in 1 .. x - 1 PROVE d.task[u].status # "absent"
  <2>1. u \in D!Tasks /\ ~(x <= u)
    BY <1>1, <1>2, Constants, SMTT(20) DEF D!Tasks
  <2>. QED  BY <1>2, <2>1
<1>. QED  BY <1>2, <1>3 DEF D!NewTask

LEMMA Created ==
    ASSUME D!DialogueAssumption, NEW d \in Tables, NEW i \in Inputs, D!CanCreate(d)
    PROVE  LET e == D!CreateTask(d, i)
               t == D!NewTask(d) IN
           /\ e \in Tables /\ e.task = [d.task EXCEPT ![t] = NewRow1]
           /\ e.question = d.question /\ e.input = d.input
           /\ e.history = d.history /\ e.outbound = d.outbound
<1>1. PICK t : t = D!NewTask(d)
  OBVIOUS
<1>2. t \in D!Tasks /\ t \in 0 .. MaxTasks
  BY <1>1, FreeTask, Constants
<1>3. NewRow1 \in D!TaskRow
  BY SMTT(20) DEF NewRow1, D!TaskRow
<1>4. PICK x : x = NewRow1
  OBVIOUS
<1>5. D!CreateTask(d, i) = [d EXCEPT !.task[t] = x, !.local[i] = t]
  BY <1>1, <1>4 DEF D!CreateTask, NewRow1
<1>6. LET e == [d EXCEPT !.task[t] = x, !.local[i] = t] IN
           /\ e \in Tables /\ e.task = [d.task EXCEPT ![t] = x]
           /\ e.question = d.question /\ e.input = d.input
           /\ e.history = d.history /\ e.outbound = d.outbound
  BY <1>2, <1>3, <1>4 DEF Tables
<1>. QED  BY <1>1, <1>4, <1>5, <1>6

\* Messages that are not admitted yet are cancelled, and nothing else happens to them.
Cancelled(x, y) == x.status = "queued" /\ y.status = "cancelled" /\ MessageStays(x, y)
Suppressed(f, g) == \A m \in Messages : g[m] = f[m] \/ Cancelled(f[m], g[m])

LEMMA Suppressing ==
    ASSUME NEW d \in Tables, NEW S
    PROVE  LET e == D!Suppress(d, S) IN
           /\ e \in Tables /\ e.task = d.task /\ e.question = d.question /\ e.input = d.input
           /\ e.history = d.history /\ e.local = d.local
           /\ Suppressed(d.outbound, e.outbound)
<1>. DEFINE c(m) == [d.outbound[m] EXCEPT !.status = "cancelled"]
            f == [m \in Messages |-> IF m \in S /\ d.outbound[m].status = "queued"
                                     THEN c(m) ELSE d.outbound[m]]
<1>1. D!Suppress(d, S) = [d EXCEPT !.outbound = f]
  BY DEF D!Suppress
<1>2. ASSUME NEW m \in Messages
      PROVE  /\ d.outbound[m] \in D!OutboundRow /\ c(m) \in D!OutboundRow
             /\ c(m).status = "cancelled" /\ MessageStays(d.outbound[m], c(m))
  <2>1. d.outbound[m] \in D!OutboundRow
    BY DEF Tables
  <2>. QED  BY <2>1 DEF D!OutboundRow, MessageStays
<1>. HIDE DEF c
<1>3. f \in [Messages -> D!OutboundRow]
  BY <1>2
<1>4. Suppressed(d.outbound, f)
  BY <1>2 DEF Suppressed, Cancelled
<1>. HIDE DEF f
<1>5. LET e == [d EXCEPT !.outbound = f] IN
      /\ e \in Tables /\ e.task = d.task /\ e.question = d.question /\ e.input = d.input
      /\ e.history = d.history /\ e.local = d.local /\ e.outbound = f
  BY <1>3 DEF Tables
<1>. QED  BY <1>1, <1>4, <1>5

----------------------------------------------------------------------------
\* Histories.

\* The history g continues h: its new messages are of inputs that are given now, or sent
\* now, each once.
Continues(h, g, inputs, nextInputs, messages, nextMessages) ==
    /\ HistoryLasts(h, g)
    /\ \A n \in Len(h) + 1 .. Len(g) :
         /\ g[n].role = "user" =>
              /\ g[n].source \in Inputs
              /\ inputs[g[n].source].task = 0 /\ nextInputs[g[n].source].task = g[n].task
         /\ g[n].role = "assistant" =>
              /\ g[n].source \in Messages
              /\ messages[g[n].source].status # "sent" /\ nextMessages[g[n].source].status = "sent"
    /\ \A n, k \in Len(h) + 1 .. Len(g) : g[n].source = g[k].source => n = k

\* A history with its inputs and messages before and after one step of the tables.
GrowsInto(h, g, a, b, x, y) ==
    /\ h \in Seq(D!Entry) /\ g \in Seq(D!Entry)
    /\ HistoryOK(h, a, x) /\ Continues(h, g, a, b, x, y)
    /\ \A i \in Inputs : InputLasts(a[i], b[i])
    /\ \A m \in Messages : x[m].status = "sent" => y[m].status = "sent"

LEMMA HistoryContinues ==
    ASSUME D!DialogueAssumption, NEW h, NEW g, NEW a, NEW b, NEW x, NEW y,
           GrowsInto(h, g, a, b, x, y)
    PROVE  HistoryOK(g, b, y)
<1>0. /\ h \in Seq(D!Entry) /\ g \in Seq(D!Entry)
      /\ HistoryOK(h, a, x) /\ Continues(h, g, a, b, x, y)
      /\ \A i \in Inputs : InputLasts(a[i], b[i])
      /\ \A m \in Messages : x[m].status = "sent" => y[m].status = "sent"
  BY DEF GrowsInto
<1>. USE <1>0
<1>1. /\ Len(h) \in Nat /\ Len(g) \in Nat
      /\ \A n \in 1 .. Len(g) : n \in 1 .. Len(h) \/ n \in Len(h) + 1 .. Len(g)
      /\ \A n \in 1 .. Len(h) : n \notin Len(h) + 1 .. Len(g)
  BY SMTT(20)
<1>2. /\ \A n \in 1 .. Len(h) : h[n] \in D!Entry
      /\ \A n \in 1 .. Len(g) : g[n] \in D!Entry
  BY SMTT(20)
<1>3. \A z \in D!Entry : z.task \in D!Tasks /\ z.task # 0 /\ (z.role = "user" \/ z.role = "assistant")
  BY Constants DEF D!Entry
<1>4. \A n \in 1 .. Len(h) : g[n] = h[n]
  BY DEF Continues, HistoryLasts
<1>5. ASSUME NEW n \in 1 .. Len(g) PROVE EntryOK(g[n], b, y)
  <2>1. CASE n \in 1 .. Len(h)
    <3>1. EntryOK(h[n], a, x) /\ g[n] = h[n] /\ h[n].task # 0
      BY <1>2, <1>3, <1>4, <2>1 DEF HistoryOK
    <3>. QED  BY <3>1 DEF EntryOK, InputLasts
  <2>2. CASE n \in Len(h) + 1 .. Len(g)
    BY <2>2 DEF Continues, EntryOK
  <2>. QED  BY <1>1, <2>1, <2>2
<1>6. ASSUME NEW n \in 1 .. Len(h), NEW k \in Len(h) + 1 .. Len(g), k \in 1 .. Len(g)
      PROVE  g[n].source # g[k].source
  <2>1. EntryOK(h[n], a, x) /\ g[n] = h[n] /\ h[n] \in D!Entry /\ g[k] \in D!Entry
    BY <1>2, <1>4, <1>6 DEF HistoryOK
  <2>2. h[n].task # 0 /\ (h[n].role = "user" \/ h[n].role = "assistant")
        /\ (g[k].role = "user" \/ g[k].role = "assistant")
    BY <1>3, <2>1
  <2>3. /\ g[k].role = "user" => g[k].source \in Inputs /\ a[g[k].source].task = 0
        /\ g[k].role = "assistant" => g[k].source \in Messages /\ x[g[k].source].status # "sent"
    BY DEF Continues
  <2>4. \A i \in Inputs : i \notin Messages
    BY Constants
  <2>. QED  BY <2>1, <2>2, <2>3, <2>4 DEF EntryOK
<1>7. ASSUME NEW n \in 1 .. Len(g), NEW k \in 1 .. Len(g), g[n].source = g[k].source
      PROVE  n = k
  <2>1. CASE n \in 1 .. Len(h) /\ k \in 1 .. Len(h)
    BY <1>4, <1>7, <2>1 DEF HistoryOK
  <2>2. CASE n \in Len(h) + 1 .. Len(g) /\ k \in Len(h) + 1 .. Len(g)
    BY <1>7, <2>2 DEF Continues
  <2>3. CASE n \in 1 .. Len(h) /\ k \in Len(h) + 1 .. Len(g)
    BY <1>6, <1>7, <2>3
  <2>4. CASE k \in 1 .. Len(h) /\ n \in Len(h) + 1 .. Len(g)
    BY <1>6, <1>7, <2>4
  <2>. QED  BY <1>1, <2>1, <2>2, <2>3, <2>4
<1>. QED  BY <1>5, <1>7 DEF HistoryOK

\* One message is appended.
LEMMA Appended ==
    ASSUME NEW h \in Seq(D!Entry), NEW z \in D!Entry
    PROVE  LET g == Append(h, z) IN
           /\ g \in Seq(D!Entry) /\ HistoryLasts(h, g)
           /\ \A n \in Len(h) + 1 .. Len(g) : g[n] = z
           /\ \A n, k \in Len(h) + 1 .. Len(g) : n = k
BY SMTT(20) DEF HistoryLasts

----------------------------------------------------------------------------
\* The steps of a plan.

LEMMA SuppressedKeeps ==
    ASSUME NEW f, NEW g, Suppressed(f, g)
    PROVE  /\ \A m \in Messages : MessageStays(f[m], g[m])
           /\ \A m \in Messages : f[m].status = "sent" => g[m].status = "sent"
           /\ \A questions : \A m \in Messages : MessageOK(f[m], questions) => MessageOK(g[m], questions)
<1>1. \A m \in Messages : MessageStays(f[m], g[m]) /\ (f[m].status = "sent" => g[m].status = "sent")
  BY DEF Suppressed, Cancelled, MessageStays
<1>. QED  BY <1>1 DEF MessageStays, MessageOK

\* The history after the message of an input that has just been given, if there is one.
LEMMA HistoryOfGiven ==
    ASSUME D!DialogueAssumption, NEW d, NEW e, d.history \in Seq(D!Entry),
           HistoryOK(d.history, d.input, d.outbound), NEW i \in Inputs, NEW t \in D!Tasks,
           d.input[i].task = 0, e.input[i].task = t,
           \A j \in Inputs : InputLasts(d.input[j], e.input[j]),
           \A m \in Messages : d.outbound[m].status = "sent" => e.outbound[m].status = "sent",
           \/ e.history = d.history
           \/ e.history = Append(d.history, D!UserEntry(i, t)) /\ d.task[t].status \notin D!Terminal
    PROVE  /\ HistoryOK(e.history, e.input, e.outbound) /\ HistoryLasts(d.history, e.history)
           /\ NewsOK(d.history, e.history, d.task)
<1>1. PICK h, g, a, b, x, y : /\ h = d.history /\ g = e.history /\ a = d.input /\ b = e.input
                              /\ x = d.outbound /\ y = e.outbound
  OBVIOUS
<1>2. /\ h \in Seq(D!Entry) /\ HistoryOK(h, a, x) /\ a[i].task = 0 /\ b[i].task = t
      /\ \A j \in Inputs : InputLasts(a[j], b[j])
      /\ \A m \in Messages : x[m].status = "sent" => y[m].status = "sent"
  BY <1>1
<1>3. CASE g = h
  <2>1. HistoryLasts(h, g) /\ \A n \in Len(h) + 1 .. Len(g) : FALSE
    BY <1>2, <1>3, SMTT(20) DEF HistoryLasts
  <2>2. Continues(h, g, a, b, x, y) /\ NewsOK(h, g, d.task)
    BY <2>1 DEF Continues, NewsOK
  <2>3. GrowsInto(h, g, a, b, x, y)
    BY <1>2, <1>3, <2>2 DEF GrowsInto
  <2>4. HistoryOK(g, b, y)
    BY <2>3, HistoryContinues
  <2>. QED  BY <1>1, <2>1, <2>2, <2>4
<1>4. CASE g = Append(h, D!UserEntry(i, t)) /\ d.task[t].status \notin D!Terminal
  <2>1. PICK z : z = D!UserEntry(i, t)
    OBVIOUS
  <2>2. z \in D!Entry /\ z.role = "user" /\ z.source = i /\ z.task = t
    BY <2>1 DEF D!UserEntry, D!Entry
  <2>3. /\ g \in Seq(D!Entry) /\ HistoryLasts(h, g)
        /\ \A n \in Len(h) + 1 .. Len(g) : g[n] = z
        /\ \A n, k \in Len(h) + 1 .. Len(g) : n = k
    <3>1. g = Append(h, z)
      BY <1>4, <2>1
    <3>. QED  BY <1>2, <2>2, <3>1, Appended, SMTT(20)
  <2>4. Continues(h, g, a, b, x, y)
    BY <1>2, <2>2, <2>3 DEF Continues
  <2>5. NewsOK(h, g, d.task)
    BY <1>4, <2>2, <2>3 DEF NewsOK
  <2>6. GrowsInto(h, g, a, b, x, y)
    BY <1>2, <2>3, <2>4 DEF GrowsInto
  <2>7. HistoryOK(g, b, y)
    BY <2>6, HistoryContinues
  <2>. QED  BY <1>1, <2>3, <2>5, <2>7
<1>. QED  BY <1>1, <1>3, <1>4

\* create, status, attach, close and cancel.
LEMMA Given ==
    ASSUME D!DialogueAssumption, NEW d, TablesOK(d), NEW e \in Tables,
           NEW i \in Inputs, ~d.input[i].known, NEW t \in D!Tasks,
           e.question = d.question, e.input = [d.input EXCEPT ![i] = InputRow(t, None)],
           Suppressed(d.outbound, e.outbound),
           \A u \in D!Tasks : TaskOK(e.task[u]) /\ TaskLasts(d.task[u], e.task[u]),
           e.task[t].status # "absent",
           \/ e.history = d.history
           \/ e.history = Append(d.history, D!UserEntry(i, t)) /\ d.task[t].status \notin D!Terminal
    PROVE  Changes(d, e)
<1>1. /\ d \in Tables /\ d.input \in [Inputs -> D!InputRow] /\ d.history \in Seq(D!Entry)
      /\ HistoryOK(d.history, d.input, d.outbound)
  BY DEF TablesOK, Tables
<1>2. d.input[i].task = 0
  BY DEF TablesOK, InputOK
<1>3. /\ e.input[i] = InputRow(t, None)
      /\ \A j \in Inputs \ {i} : e.input[j] = d.input[j]
  BY <1>1
<1>4. \A j \in Inputs : InputLasts(d.input[j], e.input[j])
  BY <1>2, <1>3 DEF InputLasts
<1>5. ASSUME NEW j \in Inputs PROVE InputOK(e.input[j], e.question, e.task)
  <2>1. CASE j = i
    <3>1. e.input[j].known /\ e.input[j].task = t /\ e.input[j].question = None
      BY <1>3, <2>1, SMTT(20) DEF InputRow
    <3>. QED  BY <3>1 DEF InputOK
  <2>2. CASE j # i
    <3>1. InputOK(d.input[j], d.question, d.task) /\ e.input[j] = d.input[j]
      BY <1>3, <2>2 DEF TablesOK
    <3>2. d.input[j].task # 0 => d.input[j].task \in D!Tasks
      BY <1>1, Constants DEF D!InputRow
    <3>. QED  BY <3>1, <3>2 DEF InputOK, TaskLasts
  <2>. QED  BY <2>1, <2>2
<1>6. /\ \A m \in Messages : MessageOK(e.outbound[m], e.question)
      /\ \A m \in Messages : d.outbound[m].status = "sent" => e.outbound[m].status = "sent"
      /\ MessagesStay(d, e)
  BY SuppressedKeeps, SMTT(20) DEF MessagesStay, TablesOK
<1>7. e.input[i].task = t
  BY <1>3, SMTT(20) DEF InputRow
<1>8. /\ HistoryOK(e.history, e.input, e.outbound) /\ HistoryLasts(d.history, e.history)
      /\ NewsOK(d.history, e.history, d.task)
  BY <1>1, <1>2, <1>4, <1>6, <1>7, HistoryOfGiven
<1>9. Lasts(d, e)
  BY <1>4, <1>8 DEF Lasts, QuestionLasts
<1>10. TablesOK(e)
  BY <1>5, <1>6, <1>8 DEF TablesOK
<1>11. Chooses(d, e)
  BY DEF Chooses
<1>. QED  BY <1>6, <1>9, <1>10, <1>11 DEF Changes

\* A question that is asked, asked again or refreshed.
Asks(d, e, i, q) ==
    /\ e \in Tables /\ e.task = d.task /\ e.history = d.history
    /\ e.input = [d.input EXCEPT ![i] = InputRow(0, q)]
    /\ Suppressed(d.outbound, e.outbound)
    /\ e.question[q].status = "pending"
    /\ \A p \in Questions \ {q} : e.question[p] = d.question[p]
    /\ \/ e.question[q] = d.question[q]
       \/ /\ d.question[q].status # "resolved"
          /\ e.question[q].revision = d.question[q].revision + 1
          /\ e.question[q].revision <= MaxRevision

LEMMA Asked ==
    ASSUME D!DialogueAssumption, NEW d, TablesOK(d), NEW e, NEW i \in Inputs,
           ~d.input[i].known, NEW q \in Questions, Asks(d, e, i, q)
    PROVE  Changes(d, e)
<1>0. /\ e \in Tables /\ e.task = d.task /\ e.history = d.history
      /\ e.input = [d.input EXCEPT ![i] = InputRow(0, q)]
      /\ Suppressed(d.outbound, e.outbound)
      /\ e.question[q].status = "pending"
      /\ \A p \in Questions \ {q} : e.question[p] = d.question[p]
      /\ \/ e.question[q] = d.question[q]
         \/ /\ d.question[q].status # "resolved"
            /\ e.question[q].revision = d.question[q].revision + 1
            /\ e.question[q].revision <= MaxRevision
  BY DEF Asks
<1>. USE <1>0
<1>1. /\ d \in Tables /\ d.input \in [Inputs -> D!InputRow] /\ d.history \in Seq(D!Entry)
      /\ HistoryOK(d.history, d.input, d.outbound)
  BY DEF TablesOK, Tables
<1>2. d.input[i].task = 0 /\ q # None
  BY Constants DEF TablesOK, InputOK
<1>3. /\ e.input[i].known /\ e.input[i].task = 0 /\ e.input[i].question = q
      /\ \A j \in Inputs \ {i} : e.input[j] = d.input[j]
  BY <1>1, SMTT(20) DEF InputRow
<1>4. \A j \in Inputs : InputLasts(d.input[j], e.input[j])
  BY <1>2, <1>3 DEF InputLasts
<1>5. d.question[q].status # "resolved"
  OBVIOUS
<1>6. ASSUME NEW j \in Inputs PROVE InputOK(e.input[j], e.question, e.task)
  <2>1. CASE j = i
    BY <1>3, <2>1 DEF InputOK
  <2>2. CASE j # i
    <3>1. InputOK(d.input[j], d.question, d.task) /\ e.input[j] = d.input[j]
      BY <1>3, <2>2 DEF TablesOK
    <3>2. CASE d.input[j].question = q
      <4>1. d.question[q] \in D!QuestionRow
        BY <1>1 DEF Tables
      <4>2. d.question[q].status = "pending"
        BY <1>2, <1>5, <3>1, <3>2, <4>1 DEF InputOK, D!QuestionRow
      <4>. QED  BY <1>2, <3>1, <3>2, <4>2 DEF InputOK
    <3>3. CASE d.input[j].question # q
      <4>1. d.input[j].question # None => d.input[j].question \in Questions \ {q}
        BY <1>1, <3>3 DEF D!InputRow
      <4>2. d.input[j].question # None => e.question[d.input[j].question] = d.question[d.input[j].question]
        BY <4>1
      <4>. QED  BY <3>1, <4>2 DEF InputOK
    <3>. QED  BY <3>2, <3>3
  <2>. QED  BY <2>1, <2>2
<1>7. ASSUME NEW m \in Messages PROVE MessageOK(d.outbound[m], e.question)
  <2>1. MessageOK(d.outbound[m], d.question) /\ d.outbound[m] \in D!OutboundRow
    BY <1>1 DEF TablesOK, Tables
  <2>2. CASE d.outbound[m].question = q /\ e.question[q] # d.question[q]
    <3>1. d.outbound[m].revision \in Nat /\ d.question[q].revision \in Nat
      <4>1. d.outbound[m].revision \in 0 .. MaxRevision
        BY <2>1 DEF D!OutboundRow
      <4>2. d.question[q].revision \in 0 .. MaxRevision + 1
        BY <1>1 DEF Tables, D!QuestionRow
      <4>. QED  BY <4>1, <4>2, Constants, SMTT(20)
    <3>2. d.outbound[m].revision <= d.question[q].revision
      BY <1>2, <2>1, <2>2 DEF MessageOK
    <3>3. e.question[q].revision = d.question[q].revision + 1
      BY <2>2
    <3>4. d.outbound[m].revision <= e.question[q].revision /\ d.outbound[m].revision # e.question[q].revision
      BY <3>1, <3>2, <3>3, SMTT(20)
    <3>. QED  BY <2>2, <3>4 DEF MessageOK
  <2>3. CASE ~(d.outbound[m].question = q /\ e.question[q] # d.question[q])
    <3>1. d.outbound[m].question # None =>
             e.question[d.outbound[m].question] = d.question[d.outbound[m].question]
      BY <2>1, <2>3 DEF D!OutboundRow
    <3>. QED  BY <2>1, <3>1 DEF MessageOK
  <2>. QED  BY <2>2, <2>3
<1>8. /\ \A m \in Messages : MessageOK(e.outbound[m], e.question)
      /\ \A m \in Messages : d.outbound[m].status = "sent" => e.outbound[m].status = "sent"
      /\ MessagesStay(d, e)
  BY <1>7, SuppressedKeeps, SMTT(20) DEF MessagesStay
<1>9. HistoryLasts(d.history, e.history) /\ \A n \in Len(d.history) + 1 .. Len(e.history) : FALSE
  BY <1>1, SMTT(20) DEF HistoryLasts
<1>10. HistoryOK(e.history, e.input, e.outbound)
  <2>1. Continues(d.history, e.history, d.input, e.input, d.outbound, e.outbound)
    BY <1>9 DEF Continues
  <2>2. GrowsInto(d.history, e.history, d.input, e.input, d.outbound, e.outbound)
    BY <1>1, <1>4, <1>8, <2>1 DEF GrowsInto
  <2>. QED  BY <2>2, HistoryContinues
<1>11. NewsOK(d.history, e.history, d.task)
  BY <1>9 DEF NewsOK
<1>12. \A p \in Questions : QuestionOK(e.question[p]) /\ QuestionLasts(d.question[p], e.question[p])
  BY <1>5 DEF QuestionOK, QuestionLasts, TablesOK
<1>13. Lasts(d, e)
  BY <1>4, <1>9, <1>11, <1>12 DEF Lasts, TaskLasts
<1>14. TablesOK(e)
  BY <1>6, <1>8, <1>10, <1>12 DEF TablesOK
<1>15. Chooses(d, e)
  <2>1. \A p \in Questions : e.question[p] = d.question[p] \/ e.question[p].status # "resolved"
    OBVIOUS
  <2>. QED  BY <2>1 DEF Chooses
<1>. QED  BY <1>8, <1>13, <1>14, <1>15 DEF Changes

LEMMA SameFiniteness == \A S : (D!IsFiniteSet(S) <=> IsFiniteSet(S)) /\ D!Cardinality(S) = Cardinality(S)
BY SMTT(20) DEF D!IsFiniteSet, IsFiniteSet, D!Cardinality, Cardinality

LEMMA OrderIsChosen ==
    ASSUME NEW S, IsFiniteSet(S)
    PROVE  LET w == D!InSomeOrder(S) IN
           w \in Seq(S) /\ \A a, b \in 1 .. Len(w) : w[a] = w[b] => a = b
<1>. DEFINE I == 1 .. Cardinality(S)
<1>1. Cardinality(S) \in Nat /\ ExistsBijection(I, S)
  BY FS_CardinalityType
<1>2. \E f : f \in D!Bijection(I, S)
  BY <1>1 DEF ExistsBijection, Bijection, Injection, Surjection, IsInjective, D!Bijection,
              D!Injection, D!Surjection, D!IsInjective
<1>3. D!Cardinality(S) = Cardinality(S)
  BY SameFiniteness
<1>4. D!InSomeOrder(S) \in D!Bijection(I, S)
  BY <1>2, <1>3 DEF D!InSomeOrder
<1>. HIDE DEF I
<1>5. PICK w : w = D!InSomeOrder(S)
  OBVIOUS
<1>6. w \in [I -> S] /\ \A a, b \in I : w[a] = w[b] => a = b
  BY <1>4, <1>5 DEF D!Bijection, D!Injection, D!IsInjective
<1>7. w \in Seq(S) /\ Len(w) = Cardinality(S)
  BY <1>1, <1>6, SMTT(20) DEF I
<1>. QED  BY <1>5, <1>6, <1>7 DEF I

\* The inputs that waited for the question, and the one that answers it, as task t hears them.
Hears(h, g, S, t) ==
    /\ g \in Seq(D!Entry) /\ HistoryLasts(h, g)
    /\ \A n \in Len(h) + 1 .. Len(g) : \E j \in S : g[n] = D!UserEntry(j, t)
    /\ \A n, k \in Len(h) + 1 .. Len(g) : g[n].source = g[k].source => n = k

LEMMA EntryFields ==
    ASSUME NEW j, NEW t
    PROVE  LET z == D!UserEntry(j, t) IN z.role = "user" /\ z.task = t /\ z.source = j
BY DEF D!UserEntry

LEMMA Joined ==
    ASSUME NEW h \in Seq(D!Entry), NEW u \in Seq(D!Entry)
    PROVE  /\ h \o u \in Seq(D!Entry) /\ Len(h \o u) = Len(h) + Len(u)
           /\ \A n \in 1 .. Len(h) : (h \o u)[n] = h[n]
           /\ \A n \in 1 .. Len(u) : (h \o u)[Len(h) + n] = u[n]
BY SMTT(20)

LEMMA Pushed ==
    ASSUME NEW h \in Seq(D!Entry), NEW z \in D!Entry
    PROVE  /\ Append(h, z) \in Seq(D!Entry) /\ Len(Append(h, z)) = Len(h) + 1
           /\ \A n \in 1 .. Len(h) : Append(h, z)[n] = h[n]
           /\ Append(h, z)[Len(h) + 1] = z
BY SMTT(20)

LEMMA Heard ==
    ASSUME NEW h \in Seq(D!Entry), NEW S, S \subseteq Inputs, NEW i \in Inputs, i \notin S,
           NEW t \in D!Tasks,
           NEW w \in Seq(S), \A a, b \in 1 .. Len(w) : w[a] = w[b] => a = b
    PROVE  Hears(h, Append(h \o [n \in 1 .. Len(w) |-> D!UserEntry(w[n], t)], D!UserEntry(i, t)),
                 S \cup {i}, t)
<1>. DEFINE u == [n \in 1 .. Len(w) |-> D!UserEntry(w[n], t)]
            z == D!UserEntry(i, t)
            g == Append(h \o u, z)
<1>1. /\ \A j \in Inputs : D!UserEntry(j, t) \in D!Entry /\ D!UserEntry(j, t).source = j
  BY DEF D!UserEntry, D!Entry
<1>2. Len(w) \in Nat /\ \A n \in 1 .. Len(w) : w[n] \in S
  BY SMTT(20)
<1>3. /\ \A n \in 1 .. Len(w) : u[n] = D!UserEntry(w[n], t) /\ u[n] \in D!Entry /\ u[n].source = w[n]
      /\ z \in D!Entry /\ z.source = i
  BY <1>1, <1>2
<1>4. u \in Seq(D!Entry) /\ Len(u) = Len(w)
  BY <1>2, <1>3, SMTT(20)
<1>. HIDE DEF u, z
<1>5. /\ g \in Seq(D!Entry) /\ Len(g) = Len(h) + Len(w) + 1
      /\ \A n \in 1 .. Len(h) : g[n] = h[n]
      /\ \A n \in 1 .. Len(w) : g[Len(h) + n] = u[n]
      /\ g[Len(h) + Len(w) + 1] = z
  <2>1. PICK v : v = h \o u
    OBVIOUS
  <2>2. /\ v \in Seq(D!Entry) /\ Len(v) = Len(h) + Len(w) /\ Len(h) \in Nat
        /\ \A n \in 1 .. Len(h) : v[n] = h[n]
        /\ \A n \in 1 .. Len(w) : v[Len(h) + n] = u[n]
    <3>1. Len(h) \in Nat
      BY SMTT(20)
    <3>2. /\ h \o u \in Seq(D!Entry) /\ Len(h \o u) = Len(h) + Len(u)
          /\ \A n \in 1 .. Len(h) : (h \o u)[n] = h[n]
          /\ \A n \in 1 .. Len(u) : (h \o u)[Len(h) + n] = u[n]
      BY <1>4, Joined
    <3>. QED  BY <1>4, <2>1, <3>1, <3>2
  <2>3. /\ g \in Seq(D!Entry) /\ Len(g) = Len(v) + 1 /\ g[Len(v) + 1] = z
        /\ \A n \in 1 .. Len(v) : g[n] = v[n]
    <3>1. g = Append(v, z)
      BY <2>1
    <3>. HIDE DEF g
    <3>2. /\ Append(v, z) \in Seq(D!Entry) /\ Len(Append(v, z)) = Len(v) + 1
          /\ \A n \in 1 .. Len(v) : Append(v, z)[n] = v[n]
          /\ Append(v, z)[Len(v) + 1] = z
      BY <1>3, <2>2, Pushed
    <3>. QED  BY <3>1, <3>2
  <2>4. /\ \A n \in 1 .. Len(h) : n \in 1 .. Len(v)
        /\ \A n \in 1 .. Len(w) : Len(h) + n \in 1 .. Len(v)
    BY <1>2, <2>2, SMTT(20)
  <2>. HIDE DEF g
  <2>. QED  BY <2>2, <2>3, <2>4
<1>6. HistoryLasts(h, g)
  BY <1>2, <1>5, SMTT(20) DEF HistoryLasts
<1>. HIDE DEF g
<1>7. ASSUME NEW n \in Len(h) + 1 .. Len(g)
      PROVE  \/ n - Len(h) \in 1 .. Len(w) /\ g[n] = u[n - Len(h)]
             \/ n = Len(h) + Len(w) + 1 /\ g[n] = z
  <2>1. CASE n = Len(h) + Len(w) + 1
    BY <1>5, <2>1
  <2>2. CASE n # Len(h) + Len(w) + 1
    <3>1. n - Len(h) \in 1 .. Len(w) /\ n = Len(h) + (n - Len(h))
      BY <1>2, <1>5, <2>2, SMTT(20)
    <3>. QED  BY <1>5, <3>1
  <2>. QED  BY <2>1, <2>2
<1>8. ASSUME NEW n \in Len(h) + 1 .. Len(g) PROVE \E j \in S \cup {i} : g[n] = D!UserEntry(j, t)
  <2>1. CASE n - Len(h) \in 1 .. Len(w) /\ g[n] = u[n - Len(h)]
    BY <1>2, <1>3, <2>1
  <2>2. CASE g[n] = z
    BY <2>2 DEF z
  <2>. QED  BY <1>7, <2>1, <2>2
<1>9. ASSUME NEW n \in Len(h) + 1 .. Len(g), NEW k \in Len(h) + 1 .. Len(g),
             g[n].source = g[k].source
      PROVE  n = k
  <2>1. CASE n - Len(h) \in 1 .. Len(w) /\ g[n] = u[n - Len(h)]
    <3>1. CASE k - Len(h) \in 1 .. Len(w) /\ g[k] = u[k - Len(h)]
      <4>1. n - Len(h) = k - Len(h)
        BY <1>3, <1>9, <2>1, <3>1
      <4>. QED  BY <4>1, SMTT(20)
    <3>2. CASE g[k] = z
      BY <1>2, <1>3, <1>9, <2>1, <3>2
    <3>. QED  BY <1>7, <3>1, <3>2
  <2>2. CASE n = Len(h) + Len(w) + 1 /\ g[n] = z
    <3>1. CASE k - Len(h) \in 1 .. Len(w) /\ g[k] = u[k - Len(h)]
      BY <1>2, <1>3, <1>9, <2>2, <3>1
    <3>. QED  BY <1>7, <2>2, <3>1
  <2>. QED  BY <1>7, <2>1, <2>2
<1>10. Hears(h, g, S \cup {i}, t)
  BY <1>5, <1>6, <1>8, <1>9 DEF Hears
<1>. QED  BY <1>10 DEF g, u, z

\* _resolve_question, for a task that exists or for a new one: how it makes e of d, when
\* input i decides question q for task t.
Resolves(d, e, i, q, t) ==
    /\ \A u \in D!Tasks : TaskOK(e.task[u]) /\ TaskLasts(d.task[u], e.task[u])
    /\ e.task[t].status # "absent" /\ d.task[t].status \notin D!Terminal
    /\ d.task[t].status # "absent" => Offered(d, q, t)
    /\ e.question[q].status = "resolved" /\ e.question[q].resolved = t
    /\ e.question[q].revision = d.question[q].revision + 1
    /\ \A p \in Questions \ {q} : e.question[p] = d.question[p]
    /\ e.input[i] = InputRow(t, None)
    /\ \A j \in D!Waiting(d, q) :
          e.input[j].known /\ e.input[j].task = t /\ e.input[j].question = q
    /\ \A j \in Inputs \ {i} : j \notin D!Waiting(d, q) => e.input[j] = d.input[j]
    /\ Hears(d.history, e.history, D!Waiting(d, q) \cup {i}, t)
    /\ Suppressed(d.outbound, e.outbound)

LEMMA Resolved ==
    ASSUME D!DialogueAssumption, NEW d, TablesOK(d), NEW e \in Tables,
           NEW i \in Inputs, ~d.input[i].known, NEW q \in Questions, NEW t \in D!Tasks,
           d.question[q].status = "pending", Resolves(d, e, i, q, t)
    PROVE  Changes(d, e)
<1>0. /\ \A u \in D!Tasks : TaskOK(e.task[u]) /\ TaskLasts(d.task[u], e.task[u])
      /\ e.task[t].status # "absent" /\ d.task[t].status \notin D!Terminal
      /\ d.task[t].status # "absent" => Offered(d, q, t)
      /\ e.question[q].status = "resolved" /\ e.question[q].resolved = t
      /\ e.question[q].revision = d.question[q].revision + 1
      /\ \A p \in Questions \ {q} : e.question[p] = d.question[p]
      /\ e.input[i] = InputRow(t, None)
      /\ \A j \in D!Waiting(d, q) :
            e.input[j].known /\ e.input[j].task = t /\ e.input[j].question = q
      /\ \A j \in Inputs \ {i} : j \notin D!Waiting(d, q) => e.input[j] = d.input[j]
      /\ Hears(d.history, e.history, D!Waiting(d, q) \cup {i}, t)
      /\ Suppressed(d.outbound, e.outbound)
  BY DEF Resolves
<1>. USE <1>0
<1>. DEFINE W == D!Waiting(d, q)
<1>1. /\ d \in Tables /\ d.input \in [Inputs -> D!InputRow] /\ d.history \in Seq(D!Entry)
      /\ HistoryOK(d.history, d.input, d.outbound)
  BY DEF TablesOK, Tables
<1>2. d.input[i].task = 0 /\ q # None /\ t # 0
  BY Constants DEF TablesOK, InputOK
<1>3. e.input[i].known /\ e.input[i].task = t /\ e.input[i].question = None
  BY SMTT(20) DEF InputRow
<1>4. ASSUME NEW j \in W
      PROVE  /\ j \in Inputs \ {i} /\ d.input[j].task = 0 /\ d.input[j].question = q
             /\ e.input[j].known /\ e.input[j].task = t /\ e.input[j].question = q
  BY DEF D!Waiting
<1>5. ASSUME NEW j \in Inputs, j # i, j \notin W PROVE e.input[j] = d.input[j]
  BY <1>5
<1>. HIDE DEF W
<1>6. \A j \in Inputs : InputLasts(d.input[j], e.input[j])
  BY <1>2, <1>3, <1>4, <1>5 DEF InputLasts
<1>7. ASSUME NEW j \in Inputs PROVE InputOK(e.input[j], e.question, e.task)
  <2>1. CASE j = i
    BY <1>3, <2>1 DEF InputOK
  <2>2. CASE j \in W
    <3>1. e.input[j].known /\ e.input[j].task = t /\ e.input[j].question = q
      BY <1>4, <2>2
    <3>. QED  BY <1>2, <3>1 DEF InputOK
  <2>3. CASE j # i /\ j \notin W
    <3>1. InputOK(d.input[j], d.question, d.task) /\ e.input[j] = d.input[j] /\ d.input[j] \in D!InputRow
      BY <1>1, <1>5, <2>3 DEF TablesOK
    <3>2. d.input[j].task # 0 => d.input[j].task \in D!Tasks
      BY <3>1, Constants DEF D!InputRow
    <3>3. d.input[j].question # q
      BY <1>2, <2>3, <3>1 DEF InputOK, W, D!Waiting
    <3>4. d.input[j].question # None => d.input[j].question \in Questions \ {q}
      BY <3>1, <3>3 DEF D!InputRow
    <3>5. d.input[j].question # None => e.question[d.input[j].question] = d.question[d.input[j].question]
      BY <3>4
    <3>6. d.input[j].task # 0 => e.task[d.input[j].task].status # "absent"
      BY <3>1, <3>2 DEF InputOK, TaskLasts
    <3>. QED  BY <3>1, <3>5, <3>6 DEF InputOK
  <2>. QED  BY <2>1, <2>2, <2>3
<1>8. ASSUME NEW m \in Messages PROVE MessageOK(d.outbound[m], e.question)
  <2>1. MessageOK(d.outbound[m], d.question) /\ d.outbound[m] \in D!OutboundRow
    BY <1>1 DEF TablesOK, Tables
  <2>2. CASE d.outbound[m].question = q
    <3>1. d.outbound[m].revision \in 0 .. MaxRevision /\ d.question[q].revision \in 0 .. MaxRevision + 1
      BY <1>1, <2>1 DEF Tables, D!QuestionRow, D!OutboundRow
    <3>2. d.outbound[m].revision <= d.question[q].revision
      BY <1>2, <2>1, <2>2 DEF MessageOK
    <3>3. d.outbound[m].revision <= e.question[q].revision
      BY <3>1, <3>2, Constants, SMTT(20)
    <3>. QED  BY <2>2, <3>3 DEF MessageOK
  <2>3. CASE d.outbound[m].question # q
    <3>1. d.outbound[m].question # None =>
             e.question[d.outbound[m].question] = d.question[d.outbound[m].question]
      BY <2>1, <2>3 DEF D!OutboundRow
    <3>. QED  BY <2>1, <3>1 DEF MessageOK
  <2>. QED  BY <2>2, <2>3
<1>9. /\ \A m \in Messages : MessageOK(e.outbound[m], e.question)
      /\ \A m \in Messages : d.outbound[m].status = "sent" => e.outbound[m].status = "sent"
      /\ MessagesStay(d, e)
  BY <1>8, SuppressedKeeps, SMTT(20) DEF MessagesStay
<1>10. ASSUME NEW n \in Len(d.history) + 1 .. Len(e.history)
       PROVE  /\ e.history[n].role = "user" /\ e.history[n].task = t
              /\ e.history[n].source \in Inputs
              /\ d.input[e.history[n].source].task = 0 /\ e.input[e.history[n].source].task = t
  <2>0. \E j \in D!Waiting(d, q) \cup {i} : e.history[n] = D!UserEntry(j, t)
    BY SMTT(20) DEF Hears
  <2>1. PICK j \in W \cup {i} : e.history[n] = D!UserEntry(j, t)
    BY <2>0 DEF W
  <2>2. e.history[n].role = "user" /\ e.history[n].task = t /\ e.history[n].source = j
    BY <2>1, EntryFields, SMTT(20)
  <2>3. j \in Inputs /\ d.input[j].task = 0 /\ e.input[j].task = t
    BY <1>2, <1>3, <1>4
  <2>. QED  BY <2>2, <2>3
<1>11. /\ HistoryOK(e.history, e.input, e.outbound) /\ HistoryLasts(d.history, e.history)
       /\ NewsOK(d.history, e.history, d.task)
  <2>1. Continues(d.history, e.history, d.input, e.input, d.outbound, e.outbound)
    BY <1>10 DEF Continues, Hears
  <2>2. e.history \in Seq(D!Entry) /\ HistoryLasts(d.history, e.history)
    BY DEF Hears
  <2>3. NewsOK(d.history, e.history, d.task)
    BY <1>10 DEF NewsOK
  <2>4. GrowsInto(d.history, e.history, d.input, e.input, d.outbound, e.outbound)
    BY <1>1, <1>6, <1>9, <2>1, <2>2 DEF GrowsInto
  <2>. QED  BY <2>2, <2>3, <2>4, HistoryContinues
<1>12. ASSUME NEW p \in Questions
       PROVE  QuestionOK(e.question[p]) /\ QuestionLasts(d.question[p], e.question[p])
  <2>1. CASE p = q
    BY <2>1 DEF QuestionOK, QuestionLasts
  <2>2. CASE p # q
    <3>1. e.question[p] = d.question[p] /\ QuestionOK(d.question[p])
      BY <2>2 DEF TablesOK
    <3>. QED  BY <3>1 DEF QuestionLasts
  <2>. QED  BY <2>1, <2>2
<1>13. Lasts(d, e)
  BY <1>6, <1>11, <1>12 DEF Lasts
<1>14. TablesOK(e)
  BY <1>7, <1>9, <1>11, <1>12 DEF TablesOK
<1>15. Chooses(d, e)
  BY DEF Chooses
<1>. QED  BY <1>9, <1>13, <1>14, <1>15 DEF Changes

\* The tables e have input i, and the inputs that waited for question q, given to task t.
Assigns(x, e, i, q, t) ==
    /\ e \in Tables /\ e.task = x.task
    /\ e.question[q].status = "resolved" /\ e.question[q].resolved = t
    /\ e.question[q].revision = x.question[q].revision + 1
    /\ \A p \in Questions \ {q} : e.question[p] = x.question[p]
    /\ e.input[i] = InputRow(t, None)
    /\ \A j \in D!Waiting(x, q) :
          e.input[j].known /\ e.input[j].task = t /\ e.input[j].question = q
    /\ \A j \in Inputs \ {i} : j \notin D!Waiting(x, q) => e.input[j] = x.input[j]
    /\ Hears(x.history, e.history, D!Waiting(x, q) \cup {i}, t)
    /\ Suppressed(x.outbound, e.outbound)

LEMMA Assigned ==
    ASSUME D!DialogueAssumption, NEW x \in Tables, NEW r, NEW t \in D!Tasks,
           r.input \in Inputs, ~x.input[r.input].known, r.question \in Questions,
           x.question[r.question].status = "pending", QuestionOK(x.question[r.question])
    PROVE  Assigns(x, D!Assign(x, r, t), r.input, r.question, t)
<1>1. PICK i, q, W, w : /\ i = r.input /\ q = r.question /\ W = D!Waiting(x, q)
                        /\ w = D!InSomeOrder(W)
  OBVIOUS
<1>. DEFINE o == x.question[q]
            y == [o EXCEPT !.status = "resolved", !.revision = o.revision + 1, !.resolved = t]
            c(j) == [x.input[j] EXCEPT !.task = t]
            f == [j \in Inputs |-> IF j \in W THEN c(j) ELSE x.input[j]]
            u == [n \in 1 .. Len(w) |-> D!UserEntry(w[n], t)]
            h == x.history \o u
            moved == [x EXCEPT !.question[q] = y, !.input = f, !.history = h]
<1>2. D!Assign(x, r, t) = D!AttachInput(D!SuppressQuestion(moved, q), i, t)
  BY <1>1 DEF D!Assign
<1>3. i \in Inputs /\ q \in Questions /\ W \subseteq Inputs /\ i \notin W /\ t \in 0 .. MaxTasks
  BY <1>1, Constants DEF D!Waiting
<1>4. y \in D!QuestionRow /\ y.status = "resolved" /\ y.resolved = t /\ y.revision = o.revision + 1
  <2>1. o \in D!QuestionRow
    BY <1>3 DEF Tables
  <2>2. o.revision \in 0 .. MaxRevision + 1 /\ o.revision <= MaxRevision
    BY <1>1, <2>1 DEF D!QuestionRow, QuestionOK
  <2>3. o.revision + 1 \in 0 .. MaxRevision + 1
    BY <2>2, Constants, SMTT(20)
  <2>. HIDE DEF o
  <2>4. PICK k : k = o.revision + 1
    OBVIOUS
  <2>5. LET v == [o EXCEPT !.status = "resolved", !.revision = k, !.resolved = t] IN
        v \in D!QuestionRow /\ v.status = "resolved" /\ v.resolved = t /\ v.revision = k
    BY <1>3, <2>1, <2>3, <2>4 DEF D!QuestionRow
  <2>. QED  BY <2>4, <2>5
<1>5. /\ f \in [Inputs -> D!InputRow]
      /\ \A j \in W : f[j].known /\ f[j].task = t /\ f[j].question = q
      /\ \A j \in Inputs \ W : f[j] = x.input[j]
  <2>1. ASSUME NEW j \in Inputs
        PROVE  /\ x.input[j] \in D!InputRow /\ c(j) \in D!InputRow /\ c(j).task = t
               /\ c(j).known = x.input[j].known /\ c(j).question = x.input[j].question
    <3>1. x.input[j] \in D!InputRow
      BY DEF Tables
    <3>. QED  BY <1>3, <3>1 DEF D!InputRow
  <2>2. \A j \in W : x.input[j].known /\ x.input[j].question = q
    BY <1>1 DEF D!Waiting
  <2>. HIDE DEF c
  <2>. QED  BY <1>3, <2>1, <2>2
<1>6. w \in Seq(W) /\ \A a, b \in 1 .. Len(w) : w[a] = w[b] => a = b
  <2>1. IsFiniteSet(Inputs)
    BY SameFiniteness DEF D!DialogueAssumption
  <2>2. IsFiniteSet(W)
    BY <1>3, <2>1, FS_Subset
  <2>3. LET s == D!InSomeOrder(W) IN s \in Seq(W) /\ \A a, b \in 1 .. Len(s) : s[a] = s[b] => a = b
    BY <2>2, OrderIsChosen
  <2>4. w = D!InSomeOrder(W)
    BY <1>1
  <2>. QED  BY <2>3, <2>4
<1>7. x.history \in Seq(D!Entry)
  BY DEF Tables
<1>8. Hears(x.history, Append(h, D!UserEntry(i, t)), W \cup {i}, t)
  BY <1>3, <1>6, <1>7, Heard
<1>9. h \in Seq(D!Entry)
  <2>1. Len(w) \in Nat /\ \A n \in 1 .. Len(w) : D!UserEntry(w[n], t) \in D!Entry
    <3>1. Len(w) \in Nat /\ \A n \in 1 .. Len(w) : w[n] \in Inputs
      BY <1>3, <1>6, SMTT(20)
    <3>. QED  BY <3>1 DEF D!UserEntry, D!Entry
  <2>2. u \in Seq(D!Entry)
    BY <2>1, SMTT(20)
  <2>. HIDE DEF u
  <2>. QED  BY <1>7, <2>2, Joined
<1>. HIDE DEF y, f, h, o
<1>10. /\ moved \in Tables /\ moved.task = x.task /\ moved.question = [x.question EXCEPT ![q] = y]
       /\ moved.input = f /\ moved.history = h /\ moved.outbound = x.outbound
  BY <1>3, <1>4, <1>5, <1>9 DEF Tables
<1>. HIDE DEF moved
<1>11. PICK z : z = D!SuppressQuestion(moved, q)
  OBVIOUS
<1>12. /\ z \in Tables /\ z.task = x.task /\ z.question = [x.question EXCEPT ![q] = y]
       /\ z.input = f /\ z.history = h /\ Suppressed(x.outbound, z.outbound)
  BY <1>10, <1>11, Suppressing DEF D!SuppressQuestion
<1>13. PICK e : e = D!AttachInput(z, i, t)
  OBVIOUS
<1>14. /\ e \in Tables /\ e.task = z.task /\ e.question = z.question
       /\ e.input = [z.input EXCEPT ![i] = InputRow(t, None)]
       /\ e.history = Append(z.history, D!UserEntry(i, t)) /\ e.outbound = z.outbound
  BY <1>3, <1>12, <1>13, Attached, SMTT(20)
<1>15. /\ e \in Tables /\ e.task = x.task /\ Suppressed(x.outbound, e.outbound)
       /\ Hears(x.history, e.history, W \cup {i}, t)
  BY <1>8, <1>12, <1>14
<1>16. e.question[q] = y /\ \A p \in Questions \ {q} : e.question[p] = x.question[p]
  <2>1. x.question \in [Questions -> D!QuestionRow]
    BY DEF Tables
  <2>. QED  BY <1>3, <1>12, <1>14, <2>1
<1>17. e.input[i] = InputRow(t, None) /\ \A j \in Inputs \ {i} : e.input[j] = f[j]
  BY <1>3, <1>5, <1>12, <1>14
<1>18. \A j \in W : e.input[j].known /\ e.input[j].task = t /\ e.input[j].question = q
  BY <1>3, <1>5, <1>17
<1>19. \A j \in Inputs \ {i} : j \notin W => e.input[j] = x.input[j]
  BY <1>5, <1>17
<1>20. e = D!Assign(x, r, t)
  BY <1>2, <1>11, <1>13
<1>21. e.question[q].status = "resolved" /\ e.question[q].resolved = t /\ e.question[q].revision = x.question[q].revision + 1
  BY <1>4, <1>16 DEF o
<1>22. Assigns(x, e, i, q, t)
  BY <1>1, <1>15, <1>16, <1>17, <1>18, <1>19, <1>21 DEF Assigns
<1>. QED  BY <1>1, <1>20, <1>22

----------------------------------------------------------------------------
\* The routes.

RouteOK(r) ==
    /\ r.input \in Inputs
    /\ r.action \in {"attach", "close", "cancel"} => r.target \in D!Tasks \cup Inputs
    /\ r.action = "question" =>
         r.question \in Questions /\ r.text \in Texts /\ r.offers \in D!Candidates
    /\ r.action = "resolve_question" => r.question \in Questions /\ r.reply \in Messages \cup {None}
    /\ r.action \in {"create", "status", "attach", "question", "resolve_question", "close", "cancel"}

LEMMA RouteShape ==
    ASSUME NEW i \in Inputs, NEW r \in D!Routes(i)
    PROVE  RouteOK(r) /\ r.input = i
<1>1. RouteOK(D!Creating(i)) /\ D!Creating(i).input = i
  BY SMTT(20) DEF RouteOK, D!Creating
<1>2. ASSUME NEW a \in {"status", "attach", "close", "cancel"}, NEW t \in D!Tasks \cup Inputs
      PROVE  RouteOK(D!OnTask(i, a, t)) /\ D!OnTask(i, a, t).input = i
  <2>1. LET x == D!OnTask(i, a, t) IN x.action = a /\ x.target = t /\ x.input = i
    BY SMTT(20) DEF D!OnTask, D!Creating
  <2>. QED  BY <2>1 DEF RouteOK
<1>3. ASSUME NEW q \in Questions, NEW v, NEW x \in Texts, NEW S \in SUBSET D!Tasks, NEW m
      PROVE  RouteOK(D!Asking(i, q, v, x, S, m)) /\ D!Asking(i, q, v, x, S, m).input = i
  <2>1. PICK c : c = {<<t, 1>> : t \in S}
    OBVIOUS
  <2>2. c \in D!Candidates
    BY <2>1, SMTT(20) DEF D!Candidates
  <2>3. LET y == D!Asking(i, q, v, x, S, m) IN
        y.action = "question" /\ y.input = i /\ y.question = q /\ y.text = x /\ y.offers = c
    BY <2>1, SMTT(20) DEF D!Asking, D!Creating
  <2>. QED  BY <2>2, <2>3 DEF RouteOK
<1>4. ASSUME NEW q \in Questions, NEW v, NEW t, NEW m \in Messages \cup {None}
      PROVE  RouteOK(D!Answering(i, q, v, t, m)) /\ D!Answering(i, q, v, t, m).input = i
  <2>1. LET x == D!Answering(i, q, v, t, m) IN
        x.action = "resolve_question" /\ x.input = i /\ x.question = q /\ x.reply = m
    BY SMTT(20) DEF D!Answering, D!Creating
  <2>. QED  BY <2>1 DEF RouteOK
<1>5. \/ r = D!Creating(i)
      \/ \E a \in {"status", "attach", "close", "cancel"}, t \in D!Tasks \cup Inputs :
            r = D!OnTask(i, a, t)
      \/ \E q \in Questions, v \in 0 .. MaxRevision, x \in Texts, S \in SUBSET D!Tasks,
            m \in Messages \cup {None} : r = D!Asking(i, q, v, x, S, m)
      \/ \E q \in Questions, v \in 1 .. MaxRevision, t \in D!Tasks \cup {i},
            m \in Messages \cup {None} : r = D!Answering(i, q, v, t, m)
  BY SMTT(20) DEF D!Routes
<1>6. CASE \E a \in {"status", "attach", "close", "cancel"}, t \in D!Tasks \cup Inputs :
             r = D!OnTask(i, a, t)
  BY <1>2, <1>6
<1>7. CASE \E q \in Questions, v \in 0 .. MaxRevision, x \in Texts, S \in SUBSET D!Tasks,
              m \in Messages \cup {None} : r = D!Asking(i, q, v, x, S, m)
  <2>1. PICK q \in Questions, v \in 0 .. MaxRevision, x \in Texts, S \in SUBSET D!Tasks,
             m \in Messages \cup {None} : r = D!Asking(i, q, v, x, S, m)
    BY <1>7
  <2>. QED  BY <1>3, <2>1
<1>8. CASE \E q \in Questions, v \in 1 .. MaxRevision, t \in D!Tasks \cup {i},
              m \in Messages \cup {None} : r = D!Answering(i, q, v, t, m)
  <2>1. PICK q \in Questions, v \in 1 .. MaxRevision, t \in D!Tasks \cup {i},
             m \in Messages \cup {None} : r = D!Answering(i, q, v, t, m)
    BY <1>8
  <2>. QED  BY <1>4, <2>1
<1>. QED  BY <1>1, <1>5, <1>6, <1>7, <1>8

LEMMA CreateRoute ==
    ASSUME D!DialogueAssumption, NEW d, TablesOK(d), NEW r, RouteOK(r), ~d.input[r.input].known,
           NEW e \in D!Create(d, r)
    PROVE  Changes(d, e)
<1>1. PICK i, t, x, y : /\ i = r.input /\ t = D!NewTask(d) /\ x = D!CreateTask(d, i)
                        /\ y = D!AttachInput(x, i, t)
  OBVIOUS
<1>2. D!CanCreate(d) /\ e = D!SetFocus(y, i, t)
  BY <1>1 DEF D!Create
<1>3. i \in Inputs /\ d \in Tables /\ t \in D!Tasks /\ t \in 0 .. MaxTasks /\ d.task[t].status = "absent"
  BY <1>1, <1>2, FreeTask, Constants DEF RouteOK, TablesOK
<1>4. /\ x \in Tables /\ x.task = [d.task EXCEPT ![t] = NewRow1] /\ x.question = d.question
      /\ x.input = d.input /\ x.history = d.history /\ x.outbound = d.outbound
  BY <1>1, <1>2, <1>3, Created
<1>5. /\ y \in Tables /\ y.task = x.task /\ y.question = x.question
      /\ y.input = [x.input EXCEPT ![i] = InputRow(t, None)]
      /\ y.history = Append(x.history, D!UserEntry(i, t)) /\ y.outbound = x.outbound
  BY <1>1, <1>3, <1>4, Attached, SMTT(20)
<1>6. /\ e \in Tables /\ e.task = y.task /\ e.question = y.question /\ e.input = y.input
      /\ e.history = y.history /\ e.outbound = y.outbound
  BY <1>2, <1>3, <1>5, Focused, SMTT(20)
<1>7. NewRow1.status = "active" /\ NewRow1.revision = 1
  BY DEF NewRow1
<1>8. d.task \in [D!Tasks -> D!TaskRow]
  BY <1>3 DEF Tables
<1>9. e.task[t] = NewRow1 /\ \A u \in D!Tasks \ {t} : e.task[u] = d.task[u]
  <2>1. e.task = [d.task EXCEPT ![t] = NewRow1]
    BY <1>4, <1>5, <1>6
  <2>. QED  BY <1>3, <1>8, <2>1
<1>10. \A u \in D!Tasks : TaskOK(e.task[u]) /\ TaskLasts(d.task[u], e.task[u])
  BY <1>3, <1>7, <1>9 DEF TaskOK, TaskLasts, TablesOK
<1>11. d.task[t].status \notin D!Terminal /\ e.task[t].status # "absent"
  BY <1>3, <1>7, <1>9 DEF D!Terminal
<1>12. Suppressed(d.outbound, e.outbound)
  BY <1>4, <1>5, <1>6 DEF Suppressed
<1>13. /\ e.question = d.question /\ e.input = [d.input EXCEPT ![i] = InputRow(t, None)]
       /\ e.history = Append(d.history, D!UserEntry(i, t)) /\ ~d.input[i].known
  BY <1>1, <1>4, <1>5, <1>6
<1>. QED  BY <1>3, <1>6, <1>10, <1>11, <1>12, <1>13, Given

LEMMA StatusRoute ==
    ASSUME D!DialogueAssumption, NEW d, TablesOK(d), NEW r, RouteOK(r), ~d.input[r.input].known,
           NEW e \in D!Status(d, r)
    PROVE  Changes(d, e)
<1>1. PICK i, t : i = r.input /\ t = r.target
  OBVIOUS
<1>2. /\ e = D!InsertInput(d, i, t, None) /\ t \in D!Tasks /\ d.task[t].status # "absent"
      /\ i \in Inputs /\ d \in Tables /\ t \in 0 .. MaxTasks /\ None \in Questions \cup {None}
      /\ ~d.input[i].known
  BY <1>1, Constants DEF D!Status, RouteOK, TablesOK
<1>3. /\ e \in Tables /\ e.task = d.task /\ e.question = d.question
      /\ e.input = [d.input EXCEPT ![i] = InputRow(t, None)] /\ e.history = d.history
      /\ e.outbound = d.outbound
  BY <1>2, Inserted, SMTT(20)
<1>4. \A u \in D!Tasks : TaskOK(e.task[u]) /\ TaskLasts(d.task[u], e.task[u])
  BY <1>3 DEF TaskLasts, TablesOK
<1>5. Suppressed(d.outbound, e.outbound) /\ e.task[t].status # "absent"
  BY <1>2, <1>3 DEF Suppressed
<1>. QED  BY <1>2, <1>3, <1>4, <1>5, Given

LEMMA TargetOK ==
    ASSUME D!DialogueAssumption, NEW d \in Tables, NEW r, RouteOK(r),
           r.action \in {"attach", "close", "cancel"}, D!Active(d, D!Target(d, r))
    PROVE  D!Target(d, r) \in D!Tasks /\ d.task[D!Target(d, r)].status = "active"
<1>1. r.target \notin D!Tasks => d.local[r.target] \in {0} \cup D!Tasks
  BY Constants DEF RouteOK, Tables
<1>. QED  BY <1>1 DEF D!Target, D!Active

LEMMA AttachRoute ==
    ASSUME D!DialogueAssumption, NEW d, TablesOK(d), NEW r, RouteOK(r), ~d.input[r.input].known,
           r.action = "attach", NEW e \in D!Attach(d, r)
    PROVE  Changes(d, e)
<1>1. PICK i, t, y : i = r.input /\ t = D!Target(d, r) /\ y = D!AttachInput(d, i, t)
  OBVIOUS
<1>2. D!Active(d, t) /\ e = D!SetFocus(y, i, t)
  BY <1>1 DEF D!Attach
<1>3. i \in Inputs /\ d \in Tables /\ ~d.input[i].known
  BY <1>1 DEF RouteOK, TablesOK
<1>4. t \in D!Tasks /\ t \in 0 .. MaxTasks /\ d.task[t].status = "active"
  BY <1>1, <1>2, <1>3, TargetOK, Constants
<1>5. /\ y \in Tables /\ y.task = d.task /\ y.question = d.question
      /\ y.input = [d.input EXCEPT ![i] = InputRow(t, None)]
      /\ y.history = Append(d.history, D!UserEntry(i, t)) /\ y.outbound = d.outbound
  BY <1>1, <1>3, <1>4, Attached, SMTT(20)
<1>6. /\ e \in Tables /\ e.task = y.task /\ e.question = y.question /\ e.input = y.input
      /\ e.history = y.history /\ e.outbound = y.outbound
  BY <1>2, <1>3, <1>4, <1>5, Focused, SMTT(20)
<1>7. \A u \in D!Tasks : TaskOK(e.task[u]) /\ TaskLasts(d.task[u], e.task[u])
  BY <1>5, <1>6 DEF TaskLasts, TablesOK
<1>8. /\ Suppressed(d.outbound, e.outbound) /\ e.task[t].status # "absent"
      /\ d.task[t].status \notin D!Terminal
  BY <1>4, <1>5, <1>6 DEF Suppressed, D!Terminal
<1>9. /\ e.question = d.question /\ e.input = [d.input EXCEPT ![i] = InputRow(t, None)]
      /\ e.history = Append(d.history, D!UserEntry(i, t))
  BY <1>5, <1>6
<1>. QED  BY <1>3, <1>4, <1>6, <1>7, <1>8, <1>9, Given

LEMMA FinishRoute ==
    ASSUME D!DialogueAssumption, NEW d, TablesOK(d), NEW r, RouteOK(r), ~d.input[r.input].known,
           r.action \in {"close", "cancel"}, NEW e \in D!Finish(d, r)
    PROVE  Changes(d, e)
<1>1. PICK i, t, y, s, k : /\ i = r.input /\ t = D!Target(d, r) /\ y = D!AttachInput(d, i, t)
                           /\ s = (IF r.action = "close" THEN "closed" ELSE "cancelled")
                           /\ k = d.task[t].revision + 1
  OBVIOUS
<1>2. PICK x, z : x = [status |-> s, revision |-> k] /\ z = [y EXCEPT !.task[t] = x]
  OBVIOUS
<1>3. D!Active(d, t) /\ e = D!SuppressTask(z, t)
  BY <1>1, <1>2 DEF D!Finish
<1>4. i \in Inputs /\ d \in Tables /\ ~d.input[i].known
  BY <1>1 DEF RouteOK, TablesOK
<1>5. t \in D!Tasks /\ t \in 0 .. MaxTasks /\ d.task[t].status = "active"
  BY <1>1, <1>3, <1>4, TargetOK, Constants
<1>6. x \in D!TaskRow /\ x.status \in D!Terminal
  <2>1. d.task[t].revision = 1
    BY <1>5 DEF TablesOK, TaskOK
  <2>2. k \in 0 .. 2
    BY <1>1, <2>1, SMTT(20)
  <2>3. s \in D!Terminal
    BY <1>1 DEF D!Terminal
  <2>. QED  BY <1>2, <2>2, <2>3 DEF D!TaskRow
<1>7. /\ y \in Tables /\ y.task = d.task /\ y.question = d.question
      /\ y.input = [d.input EXCEPT ![i] = InputRow(t, None)]
      /\ y.history = Append(d.history, D!UserEntry(i, t)) /\ y.outbound = d.outbound
  BY <1>1, <1>4, <1>5, Attached, SMTT(20)
<1>8. /\ z \in Tables /\ z.task = [y.task EXCEPT ![t] = x] /\ z.question = y.question
      /\ z.input = y.input /\ z.history = y.history /\ z.outbound = y.outbound
  BY <1>2, <1>5, <1>6, <1>7 DEF Tables
<1>9. /\ e \in Tables /\ e.task = z.task /\ e.question = z.question /\ e.input = z.input
      /\ e.history = z.history /\ Suppressed(z.outbound, e.outbound)
  BY <1>3, <1>8, Suppressing DEF D!SuppressTask
<1>10. e.task[t] = x /\ \A u \in D!Tasks \ {t} : e.task[u] = d.task[u]
  <2>1. e.task = [d.task EXCEPT ![t] = x] /\ d.task \in [D!Tasks -> D!TaskRow]
    BY <1>4, <1>7, <1>8, <1>9 DEF Tables
  <2>. QED  BY <1>5, <2>1
<1>11. x.status # "absent" /\ x.status # "active" /\ d.task[t].status \notin D!Terminal
  BY <1>5, <1>6 DEF D!Terminal
<1>12. \A u \in D!Tasks : TaskOK(e.task[u]) /\ TaskLasts(d.task[u], e.task[u])
  BY <1>10, <1>11 DEF TaskOK, TaskLasts, TablesOK
<1>13. /\ e.question = d.question /\ e.input = [d.input EXCEPT ![i] = InputRow(t, None)]
       /\ e.history = Append(d.history, D!UserEntry(i, t))
       /\ Suppressed(d.outbound, e.outbound) /\ e.task[t].status # "absent"
  BY <1>7, <1>8, <1>9, <1>10, <1>11
<1>. QED  BY <1>4, <1>5, <1>9, <1>11, <1>12, <1>13, Given

\* The row of a question that is asked, or asked again.
LEMMA AskedRow ==
    ASSUME D!DialogueAssumption, NEW d, TablesOK(d), NEW r, RouteOK(r), r.action = "question",
           NEW v, d.question[r.question].revision < MaxRevision,
           v = d.question[r.question].revision + 1,
           NEW a \in D!Actors \cup {None}
    PROVE  LET x == [status |-> "pending", revision |-> v, actor |-> a, text |-> r.text,
                     offers |-> r.offers, resolved |-> 0] IN
           /\ x \in D!QuestionRow /\ x.status = "pending" /\ x.revision = v
           /\ v <= MaxRevision
<1>1. d.question[r.question] \in D!QuestionRow
  BY DEF TablesOK, Tables, RouteOK
<1>2. d.question[r.question].revision \in 0 .. MaxRevision + 1
  BY <1>1 DEF D!QuestionRow
<1>3. v \in 0 .. MaxRevision + 1 /\ v <= MaxRevision
  BY <1>2, Constants, SMTT(20)
<1>4. r.text \in Texts /\ r.offers \in D!Candidates /\ 0 \in 0 .. MaxTasks
  BY Constants DEF RouteOK
<1>. QED  BY <1>3, <1>4 DEF D!QuestionRow

LEMMA AskRoute ==
    ASSUME D!DialogueAssumption, NEW d, TablesOK(d), NEW r, RouteOK(r), ~d.input[r.input].known,
           r.action = "question", NEW e \in D!AskOrExtend(d, r)
    PROVE  Changes(d, e)
<1>1. PICK i, q, o, v : /\ i = r.input /\ q = r.question /\ o = d.question[q] /\ v = o.revision + 1
  OBVIOUS
<1>. DEFINE new(a) == [status |-> "pending", revision |-> v, actor |-> a, text |-> r.text,
                       offers |-> r.offers, resolved |-> 0]
            asked(a) == [d EXCEPT !.question[q] = new(a)]
<1>2. /\ i \in Inputs /\ d \in Tables /\ ~d.input[i].known /\ q \in Questions
      /\ q \in Questions \cup {None} /\ 0 \in 0 .. MaxTasks
  BY <1>1, Constants DEF RouteOK, TablesOK
<1>3. o \in D!QuestionRow /\ Actor[i] \in D!Actors /\ o.actor \in D!Actors \cup {None}
  BY <1>1, <1>2 DEF Tables, D!QuestionRow, D!Actors
<1>4. \/ /\ o.status = "absent" /\ e = D!InsertInput(asked(Actor[i]), i, 0, q)
      \/ o.status = "pending" /\ e = D!InsertInput(d, i, 0, q)
      \/ /\ o.status = "pending" /\ o.revision # MaxRevision
         /\ e = D!InsertInput(D!SuppressGeneration(asked(o.actor), q, o.revision), i, 0, q)
  <2>1. o.status \in {"absent", "pending", "resolved"}
    BY <1>3 DEF D!QuestionRow
  <2>. QED  BY <1>1, <2>1 DEF D!AskOrExtend
<1>5. ASSUME NEW a \in D!Actors \cup {None}, o.revision < MaxRevision
      PROVE  /\ asked(a) \in Tables /\ asked(a).task = d.task
             /\ asked(a).question[q].status = "pending" /\ asked(a).question[q].revision = v
             /\ v <= MaxRevision
             /\ \A p \in Questions \ {q} : asked(a).question[p] = d.question[p]
             /\ asked(a).input = d.input /\ asked(a).history = d.history
             /\ asked(a).outbound = d.outbound
  <2>1. PICK x : x = new(a)
    OBVIOUS
  <2>2. x \in D!QuestionRow /\ x.status = "pending" /\ x.revision = v /\ v <= MaxRevision
    BY <1>1, <1>5, <2>1, AskedRow
  <2>3. asked(a) = [d EXCEPT !.question[q] = x]
    BY <2>1
  <2>4. LET y == [d EXCEPT !.question[q] = x] IN
        /\ y \in Tables /\ y.task = d.task /\ y.question = [d.question EXCEPT ![q] = x]
        /\ y.input = d.input /\ y.history = d.history /\ y.outbound = d.outbound
    BY <1>2, <2>2 DEF Tables
  <2>5. d.question \in [Questions -> D!QuestionRow]
    BY <1>2 DEF Tables
  <2>. HIDE DEF asked
  <2>. QED  BY <1>2, <2>2, <2>3, <2>4, <2>5
<1>. HIDE DEF asked
<1>6. CASE o.status = "pending" /\ e = D!InsertInput(d, i, 0, q)
  <2>1. /\ e \in Tables /\ e.task = d.task /\ e.question = d.question
        /\ e.input = [d.input EXCEPT ![i] = InputRow(0, q)] /\ e.history = d.history
        /\ e.outbound = d.outbound
    BY <1>2, <1>6, Inserted, SMTT(20)
  <2>2. Suppressed(d.outbound, e.outbound)
    BY <2>1 DEF Suppressed
  <2>3. e.question[q].status = "pending"
    BY <1>1, <1>6, <2>1
  <2>4. Asks(d, e, i, q)
    BY <2>1, <2>2, <2>3 DEF Asks
  <2>. QED  BY <1>2, <2>4, Asked
<1>7. ASSUME NEW a \in D!Actors \cup {None}, NEW y \in Tables, o.revision < MaxRevision,
             o.status # "resolved", e = D!InsertInput(y, i, 0, q),
             /\ y.task = asked(a).task /\ y.question = asked(a).question /\ y.input = asked(a).input
             /\ y.history = asked(a).history /\ Suppressed(asked(a).outbound, y.outbound)
      PROVE  Changes(d, e)
  <2>1. /\ e \in Tables /\ e.task = y.task /\ e.question = y.question
        /\ e.input = [y.input EXCEPT ![i] = InputRow(0, q)] /\ e.history = y.history
        /\ e.outbound = y.outbound
    BY <1>2, <1>7, Inserted, SMTT(20)
  <2>2. /\ e.task = d.task /\ e.history = d.history /\ e.input = [d.input EXCEPT ![i] = InputRow(0, q)]
        /\ Suppressed(d.outbound, e.outbound) /\ e.question = asked(a).question
    BY <1>5, <1>7, <2>1
  <2>3. /\ e.question[q].status = "pending" /\ e.question[q].revision = v /\ v <= MaxRevision
        /\ \A p \in Questions \ {q} : e.question[p] = d.question[p]
    BY <1>5, <1>7, <2>2
  <2>4. /\ d.question[q].status # "resolved"
        /\ e.question[q].revision = d.question[q].revision + 1
        /\ e.question[q].revision <= MaxRevision
    BY <1>1, <1>7, <2>3
  <2>5. Asks(d, e, i, q)
    BY <2>1, <2>2, <2>3, <2>4 DEF Asks
  <2>. QED  BY <1>2, <2>5, Asked
<1>8. CASE o.status = "absent" /\ e = D!InsertInput(asked(Actor[i]), i, 0, q)
  <2>1. o.revision < MaxRevision
    <3>1. o.revision = 0
      BY <1>1, <1>2, <1>8 DEF TablesOK, QuestionOK
    <3>. QED  BY <3>1, Constants, SMTT(20)
  <2>2. Suppressed(asked(Actor[i]).outbound, asked(Actor[i]).outbound)
    BY DEF Suppressed
  <2>. QED  BY <1>3, <1>5, <1>7, <1>8, <2>1, <2>2
<1>9. CASE /\ o.status = "pending" /\ o.revision # MaxRevision
           /\ e = D!InsertInput(D!SuppressGeneration(asked(o.actor), q, o.revision), i, 0, q)
  <2>1. o.revision < MaxRevision
    <3>1. o.revision \in 0 .. MaxRevision + 1 /\ o.revision <= MaxRevision
      BY <1>1, <1>2, <1>3, <1>9 DEF D!QuestionRow, TablesOK, QuestionOK
    <3>. QED  BY <1>9, <3>1, Constants, SMTT(20)
  <2>2. PICK y : y = D!SuppressGeneration(asked(o.actor), q, o.revision)
    OBVIOUS
  <2>3. asked(o.actor) \in Tables
    BY <1>3, <1>5, <2>1
  <2>4. /\ y \in Tables /\ y.task = asked(o.actor).task /\ y.question = asked(o.actor).question
        /\ y.input = asked(o.actor).input /\ y.history = asked(o.actor).history
        /\ Suppressed(asked(o.actor).outbound, y.outbound)
    BY <2>2, <2>3, Suppressing DEF D!SuppressGeneration
  <2>. QED  BY <1>3, <1>7, <1>9, <2>1, <2>2, <2>4
<1>. QED  BY <1>4, <1>6, <1>8, <1>9

\* An assignment to tables x that differ from d in their tasks only resolves d's question.
SameButTasks(d, x) ==
    x.question = d.question /\ x.input = d.input /\ x.history = d.history /\ x.outbound = d.outbound

LEMMA AssignsResolves ==
    ASSUME NEW d, NEW x, NEW y, NEW e, NEW i, NEW q, NEW t, SameButTasks(d, x),
           Assigns(x, y, i, q, t),
           /\ e.task = y.task /\ e.question = y.question /\ e.input = y.input
           /\ e.history = y.history /\ e.outbound = y.outbound,
           \A u \in D!Tasks : TaskOK(x.task[u]) /\ TaskLasts(d.task[u], x.task[u]),
           x.task[t].status # "absent", d.task[t].status \notin D!Terminal,
           d.task[t].status # "absent" => Offered(d, q, t)
    PROVE  Resolves(d, e, i, q, t)
<1>1. D!Waiting(x, q) = D!Waiting(d, q)
  BY DEF SameButTasks, D!Waiting
<1>2. /\ e.question[q].status = "resolved" /\ e.question[q].resolved = t
      /\ e.question[q].revision = d.question[q].revision + 1
      /\ \A p \in Questions \ {q} : e.question[p] = d.question[p]
  BY DEF SameButTasks, Assigns
<1>3. /\ e.input[i] = InputRow(t, None)
      /\ \A j \in D!Waiting(d, q) : e.input[j].known /\ e.input[j].task = t /\ e.input[j].question = q
      /\ \A j \in Inputs \ {i} : j \notin D!Waiting(d, q) => e.input[j] = d.input[j]
  <2>1. y.input[i] = InputRow(t, None) /\ x.input = d.input
    BY DEF SameButTasks, Assigns
  <2>2. ASSUME NEW j \in D!Waiting(d, q)
        PROVE  y.input[j].known /\ y.input[j].task = t /\ y.input[j].question = q
    BY <1>1 DEF Assigns
  <2>3. ASSUME NEW j \in Inputs \ {i}, j \notin D!Waiting(d, q) PROVE y.input[j] = x.input[j]
    BY <1>1, <2>3 DEF Assigns
  <2>. QED  BY <2>1, <2>2, <2>3
<1>4. Hears(d.history, e.history, D!Waiting(d, q) \cup {i}, t)
  BY <1>1 DEF SameButTasks, Assigns
<1>5. Suppressed(d.outbound, e.outbound)
  BY DEF SameButTasks, Assigns
<1>6. /\ \A u \in D!Tasks : TaskOK(e.task[u]) /\ TaskLasts(d.task[u], e.task[u])
      /\ e.task[t].status # "absent"
  BY DEF Assigns
<1>. QED  BY <1>2, <1>3, <1>4, <1>5, <1>6 DEF Resolves

LEMMA Decided ==
    ASSUME D!DialogueAssumption, NEW d, TablesOK(d), NEW r, RouteOK(r), ~d.input[r.input].known,
           r.question \in Questions, d.question[r.question].status = "pending",
           NEW t \in D!Tasks, NEW x \in Tables, SameButTasks(d, x),
           \A u \in D!Tasks : TaskOK(x.task[u]) /\ TaskLasts(d.task[u], x.task[u]),
           x.task[t].status # "absent", d.task[t].status \notin D!Terminal,
           d.task[t].status # "absent" => Offered(d, r.question, t)
    PROVE  Changes(d, D!SetFocus(D!Assign(x, r, t), r.input, t))
<1>1. r.input \in Inputs /\ t \in 0 .. MaxTasks
  BY Constants DEF RouteOK
<1>2. /\ ~x.input[r.input].known /\ x.question[r.question].status = "pending"
      /\ QuestionOK(x.question[r.question])
  BY DEF SameButTasks, TablesOK
<1>3. Assigns(x, D!Assign(x, r, t), r.input, r.question, t)
  BY <1>1, <1>2, Assigned
<1>4. PICK y : y = D!Assign(x, r, t)
  OBVIOUS
<1>5. Assigns(x, y, r.input, r.question, t)
  BY <1>3, <1>4
<1>6. y \in Tables
  BY <1>5 DEF Assigns
<1>7. PICK e : e = D!SetFocus(y, r.input, t)
  OBVIOUS
<1>8. /\ e \in Tables /\ e.task = y.task /\ e.question = y.question /\ e.input = y.input
      /\ e.history = y.history /\ e.outbound = y.outbound
  BY <1>1, <1>6, <1>7, Focused
<1>9. Resolves(d, e, r.input, r.question, t)
  BY <1>5, <1>8, AssignsResolves
<1>10. Changes(d, e)
  BY <1>1, <1>8, <1>9, Resolved
<1>. QED  BY <1>4, <1>7, <1>10

LEMMA ResolveRoute ==
    ASSUME D!DialogueAssumption, NEW d, TablesOK(d), NEW r, RouteOK(r), ~d.input[r.input].known,
           r.action = "resolve_question", NEW e \in D!ResolveQuestion(d, r)
    PROVE  Changes(d, e)
<1>1. r.question \in Questions /\ r.reply \in Messages \cup {None} /\ d \in Tables /\ r.input \in Inputs
  BY DEF RouteOK, TablesOK
<1>2. PICK o, t, n : o = d.question[r.question] /\ t = r.target /\ n = D!NewTask(d)
  OBVIOUS
<1>3. /\ o.status = "pending" /\ o.revision = r.revision /\ D!Answered(d, r)
      /\ \/ /\ e = D!SetFocus(D!Assign(d, r, t), r.input, t)
            /\ t \in D!Tasks
            /\ \E c \in o.offers : c[1] = t /\ d.task[t] = [status |-> "active", revision |-> c[2]]
         \/ /\ D!CanCreate(d)
            /\ e = D!SetFocus(D!Assign(D!CreateTask(d, r.input), r, n), r.input, n)
  BY <1>2 DEF D!ResolveQuestion
<1>4. d.question[r.question].status = "pending"
  BY <1>2, <1>3
<1>5. CASE /\ e = D!SetFocus(D!Assign(d, r, t), r.input, t)
           /\ t \in D!Tasks
           /\ \E c \in o.offers : c[1] = t /\ d.task[t] = [status |-> "active", revision |-> c[2]]
  <2>1. PICK c \in o.offers : c[1] = t /\ d.task[t] = [status |-> "active", revision |-> c[2]]
    BY <1>5
  <2>2. d.task[t].status = "active" /\ d.task[t].revision = c[2]
    BY <2>1, SMTT(20)
  <2>3. <<t, d.task[t].revision>> \in o.offers
    <3>1. o.offers \in D!Candidates
      BY <1>1, <1>2 DEF Tables, D!QuestionRow
    <3>2. c = <<c[1], c[2]>>
      BY <3>1, SMTT(20) DEF D!Candidates
    <3>. QED  BY <2>1, <2>2, <3>2
  <2>4. \E m \in Messages : /\ d.outbound[m].confirmed /\ d.outbound[m].question = r.question
                            /\ d.outbound[m].revision = r.revision
    BY <1>1, <1>3 DEF D!Answered, D!Delivered, D!RepliesTo
  <2>5. PICK m \in Messages : /\ d.outbound[m].confirmed /\ d.outbound[m].question = r.question
                              /\ d.outbound[m].revision = r.revision
    BY <2>4
  <2>6. d.outbound[m].shown = o.offers
    <3>1. MessageOK(d.outbound[m], d.question) /\ r.question # None
      BY <1>1, Constants DEF TablesOK
    <3>. QED  BY <1>2, <1>3, <2>5, <3>1 DEF MessageOK
  <2>7. Offered(d, r.question, t)
    BY <2>2, <2>3, <2>5, <2>6 DEF Offered
  <2>8. \A u \in D!Tasks : TaskOK(d.task[u]) /\ TaskLasts(d.task[u], d.task[u])
    BY DEF TablesOK, TaskLasts
  <2>9. d.task[t].status # "absent" /\ d.task[t].status \notin D!Terminal
    BY <2>2 DEF D!Terminal
  <2>10. SameButTasks(d, d)
    BY DEF SameButTasks
  <2>. QED  BY <1>1, <1>4, <1>5, <2>7, <2>8, <2>9, <2>10, Decided
<1>6. CASE /\ D!CanCreate(d)
           /\ e = D!SetFocus(D!Assign(D!CreateTask(d, r.input), r, n), r.input, n)
  <2>1. n \in D!Tasks /\ d.task[n].status = "absent" /\ d.task[n].status \notin D!Terminal
    BY <1>2, <1>6, FreeTask DEF D!Terminal
  <2>2. PICK x : x = D!CreateTask(d, r.input)
    OBVIOUS
  <2>3. /\ x \in Tables /\ x.task = [d.task EXCEPT ![n] = NewRow1]
        /\ x.question = d.question /\ x.input = d.input
        /\ x.history = d.history /\ x.outbound = d.outbound
    BY <1>1, <1>2, <1>6, <2>2, Created
  <2>4. d.task \in [D!Tasks -> D!TaskRow]
    BY <1>1 DEF Tables
  <2>5. x.task[n] = NewRow1 /\ \A u \in D!Tasks \ {n} : x.task[u] = d.task[u]
    BY <2>1, <2>3, <2>4
  <2>6. NewRow1.status = "active" /\ NewRow1.revision = 1
    BY DEF NewRow1
  <2>7. \A u \in D!Tasks : TaskOK(x.task[u]) /\ TaskLasts(d.task[u], x.task[u])
    BY <2>1, <2>5, <2>6 DEF TaskOK, TaskLasts, TablesOK
  <2>8. x.task[n].status # "absent"
    BY <2>5, <2>6
  <2>9. SameButTasks(d, x)
    BY <2>3 DEF SameButTasks
  <2>. QED  BY <1>1, <1>4, <1>6, <2>1, <2>2, <2>3, <2>7, <2>8, <2>9, Decided
<1>. QED  BY <1>3, <1>5, <1>6

\* Every route of a plan.
LEMMA RouteChanges ==
    ASSUME D!DialogueAssumption, NEW d, TablesOK(d), NEW r, RouteOK(r), ~d.input[r.input].known,
           NEW e \in D!Route(d, r)
    PROVE  Changes(d, e)
<1>1. \/ r.action = "create" /\ e \in D!Create(d, r)
      \/ r.action = "status" /\ e \in D!Status(d, r)
      \/ r.action = "attach" /\ e \in D!Attach(d, r)
      \/ r.action = "question" /\ e \in D!AskOrExtend(d, r)
      \/ r.action = "resolve_question" /\ e \in D!ResolveQuestion(d, r)
      \/ r.action \in {"close", "cancel"} /\ e \in D!Finish(d, r)
  BY DEF D!Route, RouteOK
<1>. QED  BY <1>1, CreateRoute, StatusRoute, AttachRoute, AskRoute, ResolveRoute, FinishRoute

----------------------------------------------------------------------------
\* Plans of several routes.

LEMMA ChangesNothing ==
    ASSUME NEW d, TablesOK(d)
    PROVE  Changes(d, d)
<1>1. d.history \in Seq(D!Entry)
  BY DEF TablesOK, Tables
<1>2. HistoryLasts(d.history, d.history) /\ NewsOK(d.history, d.history, d.task)
  BY <1>1, SMTT(20) DEF HistoryLasts, NewsOK
<1>3. Lasts(d, d)
  BY <1>2 DEF Lasts, TaskLasts, QuestionLasts, InputLasts
<1>. QED  BY <1>3 DEF Changes, MessagesStay, MessageStays, Chooses

LEMMA HistoryLastsOn ==
    ASSUME NEW h \in Seq(D!Entry), NEW g \in Seq(D!Entry), NEW k \in Seq(D!Entry),
           HistoryLasts(h, g), HistoryLasts(g, k)
    PROVE  /\ HistoryLasts(h, k)
           /\ \A n \in Len(h) + 1 .. Len(k) :
                \/ n \in Len(h) + 1 .. Len(g) /\ k[n] = g[n]
                \/ n \in Len(g) + 1 .. Len(k)
           /\ \A n \in Len(h) + 1 .. Len(k) : k[n] \in D!Entry
<1>1. Len(h) \in Nat /\ Len(g) \in Nat /\ Len(k) \in Nat /\ Len(h) <= Len(g) /\ Len(g) <= Len(k)
  BY SMTT(20) DEF HistoryLasts
<1>2. \A n \in 1 .. Len(h) : n \in 1 .. Len(g)
  BY <1>1, SMTT(20)
<1>3. HistoryLasts(h, k)
  <2>1. \A n \in 1 .. Len(h) : k[n] = h[n]
    BY <1>2 DEF HistoryLasts
  <2>2. Len(h) <= Len(k)
    BY <1>1, SMTT(20)
  <2>. QED  BY <2>1, <2>2 DEF HistoryLasts
<1>4. \A n \in Len(h) + 1 .. Len(k) : \/ n \in Len(h) + 1 .. Len(g) /\ n \in 1 .. Len(g)
                                      \/ n \in Len(g) + 1 .. Len(k)
  BY <1>1, SMTT(20)
<1>5. \A n \in Len(h) + 1 .. Len(k) : k[n] \in D!Entry
  BY <1>1, SMTT(20)
<1>. QED  BY <1>3, <1>4, <1>5 DEF HistoryLasts

LEMMA LastsOn ==
    ASSUME NEW d, NEW e, NEW f, TablesOK(d), TablesOK(e), TablesOK(f), Lasts(d, e), Lasts(e, f)
    PROVE  Lasts(d, f)
<1>1. /\ d.history \in Seq(D!Entry) /\ e.history \in Seq(D!Entry) /\ f.history \in Seq(D!Entry)
  BY DEF TablesOK, Tables
<1>2. HistoryLasts(d.history, e.history) /\ HistoryLasts(e.history, f.history)
  BY DEF Lasts
<1>3. /\ HistoryLasts(d.history, f.history)
      /\ \A n \in Len(d.history) + 1 .. Len(f.history) :
           \/ n \in Len(d.history) + 1 .. Len(e.history) /\ f.history[n] = e.history[n]
           \/ n \in Len(e.history) + 1 .. Len(f.history)
      /\ \A n \in Len(d.history) + 1 .. Len(f.history) : f.history[n] \in D!Entry
  BY <1>1, <1>2, HistoryLastsOn
<1>4. \A t \in D!Tasks : d.task[t].status \in D!Terminal => e.task[t].status \in D!Terminal
  BY DEF Lasts, TaskLasts, D!Terminal
<1>5. NewsOK(d.history, f.history, d.task)
  <2>. SUFFICES ASSUME NEW n \in Len(d.history) + 1 .. Len(f.history), f.history[n].role = "user"
                PROVE  d.task[f.history[n].task].status \notin D!Terminal
    BY DEF NewsOK
  <2>1. f.history[n].task \in D!Tasks
    BY <1>3 DEF D!Entry
  <2>2. CASE n \in Len(d.history) + 1 .. Len(e.history) /\ f.history[n] = e.history[n]
    BY <2>2 DEF Lasts, NewsOK
  <2>3. CASE n \in Len(e.history) + 1 .. Len(f.history)
    <3>1. e.task[f.history[n].task].status \notin D!Terminal
      BY <2>3 DEF Lasts, NewsOK
    <3>. QED  BY <1>4, <2>1, <3>1
  <2>. QED  BY <1>3, <2>2, <2>3
<1>6. \A t \in D!Tasks : TaskLasts(d.task[t], f.task[t])
  BY DEF Lasts, TaskLasts, D!Terminal
<1>7. \A q \in Questions : QuestionLasts(d.question[q], f.question[q])
  BY DEF Lasts, QuestionLasts
<1>8. \A i \in Inputs : InputLasts(d.input[i], f.input[i])
  BY DEF Lasts, InputLasts
<1>. QED  BY <1>3, <1>5, <1>6, <1>7, <1>8 DEF Lasts

LEMMA ChangesOn ==
    ASSUME D!DialogueAssumption, NEW d, NEW e, NEW f, TablesOK(d), Changes(d, e), Changes(e, f)
    PROVE  Changes(d, f)
<1>1. TablesOK(e) /\ TablesOK(f) /\ Lasts(d, e) /\ Lasts(e, f)
  BY DEF Changes
<1>2. Lasts(d, f)
  BY <1>1, LastsOn
<1>3. \A m \in Messages : /\ MessageStays(d.outbound[m], e.outbound[m])
                          /\ MessageStays(e.outbound[m], f.outbound[m])
  BY DEF Changes, MessagesStay
<1>4. MessagesStay(d, f)
  BY <1>3 DEF MessagesStay, MessageStays
<1>5. Chooses(d, f)
  <2>. SUFFICES ASSUME NEW q \in Questions, d.question[q].status = "pending",
                       f.question[q].status = "resolved"
                PROVE  LET t == f.question[q].resolved IN
                       t \in D!Tasks /\ (d.task[t].status # "absent" => Offered(d, q, t))
    BY DEF Chooses
  <2>1. /\ QuestionLasts(d.question[q], e.question[q]) /\ QuestionLasts(e.question[q], f.question[q])
        /\ e.question[q].status \in {"absent", "pending", "resolved"}
    BY <1>1 DEF Lasts, TablesOK, Tables, D!QuestionRow
  <2>2. PICK t : t = f.question[q].resolved
    OBVIOUS
  <2>3. CASE e.question[q].status = "resolved"
    <3>1. f.question[q] = e.question[q]
      BY <2>1, <2>3 DEF QuestionLasts
    <3>. QED  BY <2>3, <3>1 DEF Changes, Chooses
  <2>4. CASE e.question[q].status = "pending"
    <3>1. t \in D!Tasks /\ (e.task[t].status # "absent" => Offered(e, q, t))
      BY <2>2, <2>4 DEF Changes, Chooses
    <3>2. ASSUME d.task[t].status # "absent" PROVE Offered(d, q, t)
      <4>1. TaskLasts(d.task[t], e.task[t])
        BY <1>1, <3>1 DEF Lasts
      <4>2. Offered(e, q, t)
        BY <3>1, <3>2, <4>1 DEF TaskLasts
      <4>3. e.task[t] = d.task[t]
        BY <3>2, <4>1, <4>2 DEF TaskLasts, Offered
      <4>. QED  BY <1>3, <4>2, <4>3 DEF Offered, MessageStays
    <3>. QED  BY <2>2, <3>1, <3>2
  <2>. QED  BY <2>1, <2>3, <2>4 DEF QuestionLasts
<1>. QED  BY <1>1, <1>2, <1>4, <1>5 DEF Changes

\* One more route, from any of the tables of S.
Spread(S) == UNION {D!Routed(d) : d \in S}

LEMMA SpreadChanges ==
    ASSUME D!DialogueAssumption, NEW d, TablesOK(d), NEW S, \A e \in S : Changes(d, e),
           NEW f \in Spread(S)
    PROVE  Changes(d, f)
<1>1. PICK e \in S : f \in D!Routed(e)
  BY DEF Spread
<1>2. PICK r \in UNION {D!Routes(i) : i \in {j \in Inputs : ~e.input[j].known}} : f \in D!Route(e, r)
  BY <1>1 DEF D!Routed
<1>3. PICK i \in {j \in Inputs : ~e.input[j].known} : r \in D!Routes(i)
  BY <1>2
<1>4. RouteOK(r) /\ r.input = i /\ Changes(d, e) /\ TablesOK(e)
  BY <1>1, <1>3, RouteShape DEF Changes
<1>5. Changes(e, f)
  BY <1>2, <1>3, <1>4, RouteChanges
<1>. QED  BY <1>4, <1>5, ChangesOn

\* The function that Outcomes is: what it gives for n from what it gives before.
From(n, g) == IF n = 0 THEN {db} ELSE Spread(g[n - 1])
Upto(k, g) == g = [n \in 0 .. k |-> From(n, g)]

LEMMA UptoZero == \E g : Upto(0, g)
<1>. DEFINE g == [n \in 0 .. 0 |-> From(n, <<>>)]
<1>1. \A n \in 0 .. 0 : n = 0
  BY SMTT(20)
<1>2. \A n \in 0 .. 0 : From(n, <<>>) = From(n, g)
  BY <1>1 DEF From
<1>3. g = [n \in 0 .. 0 |-> From(n, g)]
  BY <1>2
<1>. QED  BY <1>3 DEF Upto

LEMMA UptoNext ==
    ASSUME NEW k \in Nat, NEW f, Upto(k, f)
    PROVE  \E g : Upto(k + 1, g)
<1>. DEFINE g == [n \in 0 .. k + 1 |-> IF n = k + 1 THEN From(n, f) ELSE f[n]]
<1>1. ASSUME NEW n \in 0 .. k + 1
      PROVE  /\ n # k + 1 => n \in 0 .. k
             /\ n # 0 => n - 1 \in 0 .. k + 1 /\ n - 1 # k + 1
  BY SMTT(20)
<1>2. \A n \in 0 .. k : f[n] = From(n, f)
  BY DEF Upto
<1>3. \A n \in 0 .. k + 1 : g[n] = From(n, f)
  BY <1>1, <1>2
<1>4. \A n \in 0 .. k + 1 : n # k + 1 => g[n] = f[n]
  OBVIOUS
<1>5. g = [n \in 0 .. k + 1 |-> g[n]]
  OBVIOUS
<1>. HIDE DEF g
<1>6. \A n \in 0 .. k + 1 : From(n, f) = From(n, g)
  BY <1>1, <1>4 DEF From
<1>7. \A n \in 0 .. k + 1 : g[n] = From(n, g)
  BY <1>3, <1>6
<1>8. g = [n \in 0 .. k + 1 |-> From(n, g)]
  BY <1>5, <1>7
<1>. QED  BY <1>8 DEF Upto

LEMMA UptoAll == \A k \in Nat : \E g : Upto(k, g)
<1>. DEFINE S == {k \in Nat : ~\E g : Upto(k, g)}
<1>1. SUFFICES ASSUME S # {} PROVE FALSE
  OBVIOUS
<1>2. PICK x \in S : \A y \in S : x <= y
  BY <1>1, Least
<1>3. x \in Nat /\ x # 0
  BY UptoZero
<1>4. PICK k \in Nat : x = k + 1 /\ ~(x <= k)
  <2>1. x - 1 \in Nat /\ x = (x - 1) + 1 /\ ~(x <= x - 1)
    BY <1>3, SMTT(20)
  <2>. QED  BY <2>1
<1>5. \E g : Upto(k, g)
  BY <1>2, <1>4
<1>. QED  BY <1>4, <1>5, UptoNext

LEMMA OutcomesAre ==
    ASSUME D!DialogueAssumption
    PROVE  Upto(MaxRoutes, D!Outcomes)
<1>1. \E g : Upto(MaxRoutes, g)
  BY Constants, UptoAll
<1>2. \E g : g = [n \in 0 .. MaxRoutes |->
                    IF n = 0 THEN {db} ELSE UNION {D!Routed(d) : d \in g[n - 1]}]
  BY <1>1 DEF Upto, From, Spread
<1>3. D!Outcomes = [n \in 0 .. MaxRoutes |->
                      IF n = 0 THEN {db} ELSE UNION {D!Routed(d) : d \in D!Outcomes[n - 1]}]
  BY <1>2 DEF D!Outcomes
<1>. QED  BY <1>3 DEF Upto, From, Spread

\* What plans of n routes lead to.
LEMMA OutcomesChange ==
    ASSUME D!DialogueAssumption, TablesOK(db), NEW n \in 0 .. MaxRoutes, NEW d \in D!Outcomes[n]
    PROVE  Changes(db, d)
<1>. DEFINE S == {k \in 0 .. MaxRoutes : \E e \in D!Outcomes[k] : ~Changes(db, e)}
<1>1. SUFFICES ASSUME S # {} PROVE FALSE
  OBVIOUS
<1>2. S \subseteq Nat
  BY Constants, SMTT(20)
<1>3. PICK x \in S : \A y \in S : x <= y
  BY <1>1, <1>2, Least
<1>4. \A k \in 0 .. MaxRoutes : D!Outcomes[k] = From(k, D!Outcomes)
  BY OutcomesAre DEF Upto
<1>5. CASE x = 0
  <2>1. D!Outcomes[x] = {db}
    BY <1>3, <1>4, <1>5 DEF From
  <2>. QED  BY <1>3, <2>1, ChangesNothing
<1>6. CASE x # 0
  <2>1. x - 1 \in 0 .. MaxRoutes /\ ~(x <= x - 1)
    BY <1>3, <1>6, Constants, SMTT(20)
  <2>2. \A e \in D!Outcomes[x - 1] : Changes(db, e)
    BY <1>3, <2>1
  <2>3. D!Outcomes[x] = Spread(D!Outcomes[x - 1])
    BY <1>3, <1>4, <1>6 DEF From
  <2>. QED  BY <1>3, <2>2, <2>3, SpreadChanges
<1>. QED  BY <1>5, <1>6

----------------------------------------------------------------------------
\* The steps of DialogueTasks.

Moves(d, e) == TablesOK(e) /\ Lasts(d, e) /\ Chooses(d, e)

\* A plan that is applied: what its routes lead to, without the keys of the plan.
LEMMA PlanMoves ==
    ASSUME D!DialogueAssumption, TablesOK(db), D!ApplyPlan
    PROVE  Moves(db, db')
<1>1. PICK n \in 1 .. MaxRoutes : \E d \in D!Outcomes[n] :
          db' = [d EXCEPT !.local = [i \in Inputs |-> 0]]
  BY DEF D!ApplyPlan
<1>2. PICK d \in D!Outcomes[n] : db' = [d EXCEPT !.local = [i \in Inputs |-> 0]]
  BY <1>1
<1>3. n \in 0 .. MaxRoutes
  BY Constants, SMTT(20)
<1>4. Changes(db, d) /\ TablesOK(d) /\ d \in Tables
  BY <1>3, OutcomesChange DEF Changes, TablesOK
<1>5. PICK z : z = [i \in Inputs |-> 0]
  OBVIOUS
<1>6. z \in [Inputs -> 0 .. MaxTasks]
  BY <1>5, Constants
<1>7. PICK e : e = [d EXCEPT !.local = z]
  OBVIOUS
<1>8. /\ e \in Tables /\ e.task = d.task /\ e.question = d.question /\ e.input = d.input
      /\ e.history = d.history /\ e.outbound = d.outbound
  BY <1>4, <1>6, <1>7 DEF Tables
<1>9. TablesOK(e)
  BY <1>4, <1>8 DEF TablesOK
<1>10. Lasts(db, e) /\ Chooses(db, e)
  BY <1>4, <1>8 DEF Changes, Lasts, Chooses
<1>11. db' = e
  BY <1>2, <1>5, <1>7
<1>. QED  BY <1>9, <1>10, <1>11 DEF Moves

\* A step of one outbound message.
LEMMA MessageMoves ==
    ASSUME D!DialogueAssumption, NEW d, TablesOK(d), NEW e \in Tables, NEW m \in Messages,
           e.task = d.task, e.question = d.question, e.input = d.input,
           \A k \in Messages \ {m} : e.outbound[k] = d.outbound[k],
           MessageOK(e.outbound[m], d.question), d.outbound[m].status # "sent",
           \/ e.history = d.history
           \/ /\ e.outbound[m].status = "sent"
              /\ \E z \in D!Entry : /\ z.role = "assistant" /\ z.source = m
                                    /\ e.history = Append(d.history, z)
    PROVE  Moves(d, e)
<1>1. d.history \in Seq(D!Entry) /\ HistoryOK(d.history, d.input, d.outbound)
  BY DEF TablesOK, Tables
<1>2. \A i \in Inputs : InputLasts(d.input[i], e.input[i])
  BY DEF InputLasts
<1>3. \A k \in Messages : d.outbound[k].status = "sent" => e.outbound[k].status = "sent"
  OBVIOUS
<1>4. /\ e.history \in Seq(D!Entry)
      /\ Continues(d.history, e.history, d.input, e.input, d.outbound, e.outbound)
      /\ NewsOK(d.history, e.history, d.task)
  <2>1. CASE e.history = d.history
    <3>1. HistoryLasts(d.history, d.history) /\ \A n \in Len(d.history) + 1 .. Len(d.history) : FALSE
      BY <1>1, SMTT(20) DEF HistoryLasts
    <3>. QED  BY <1>1, <2>1, <3>1 DEF Continues, NewsOK
  <2>2. CASE /\ e.outbound[m].status = "sent"
             /\ \E z \in D!Entry : /\ z.role = "assistant" /\ z.source = m
                                   /\ e.history = Append(d.history, z)
    <3>1. PICK z \in D!Entry : /\ z.role = "assistant" /\ z.source = m
                               /\ e.history = Append(d.history, z)
      BY <2>2
    <3>2. /\ e.history \in Seq(D!Entry) /\ HistoryLasts(d.history, e.history)
          /\ \A n \in Len(d.history) + 1 .. Len(e.history) : e.history[n] = z
          /\ \A n, k \in Len(d.history) + 1 .. Len(e.history) : n = k
      BY <1>1, <3>1, Appended, SMTT(20)
    <3>. QED  BY <2>2, <3>1, <3>2 DEF Continues, NewsOK
  <2>. QED  BY <2>1, <2>2
<1>5. HistoryOK(e.history, e.input, e.outbound) /\ HistoryLasts(d.history, e.history)
  <2>1. HistoryLasts(d.history, e.history)
    BY <1>4 DEF Continues
  <2>2. GrowsInto(d.history, e.history, d.input, e.input, d.outbound, e.outbound)
    BY <1>1, <1>2, <1>3, <1>4 DEF GrowsInto
  <2>. QED  BY <2>1, <2>2, HistoryContinues
<1>6. \A k \in Messages : MessageOK(e.outbound[k], e.question)
  BY DEF TablesOK
<1>7. TablesOK(e)
  BY <1>5, <1>6 DEF TablesOK
<1>8. Lasts(d, e)
  BY <1>2, <1>4, <1>5 DEF Lasts, TaskLasts, QuestionLasts
<1>9. Chooses(d, e)
  BY DEF Chooses
<1>. QED  BY <1>7, <1>8, <1>9 DEF Moves

\* The tables d with the row o for message m.
Put(d, m, o) == [d EXCEPT !.outbound[m] = o]

LEMMA Replaced ==
    ASSUME NEW d \in Tables, NEW m \in Messages, NEW o \in D!OutboundRow
    PROVE  LET e == Put(d, m, o) IN
           /\ e \in Tables /\ e.task = d.task /\ e.question = d.question /\ e.input = d.input
           /\ e.history = d.history /\ e.outbound[m] = o
           /\ \A k \in Messages \ {m} : e.outbound[k] = d.outbound[k]
<1>1. d.outbound \in [Messages -> D!OutboundRow]
  BY DEF Tables
<1>2. LET e == [d EXCEPT !.outbound[m] = o] IN
      /\ e \in Tables /\ e.task = d.task /\ e.question = d.question /\ e.input = d.input
      /\ e.history = d.history /\ e.outbound = [d.outbound EXCEPT ![m] = o]
  BY DEF Tables
<1>3. PICK e : e = [d EXCEPT !.outbound[m] = o]
  OBVIOUS
<1>4. /\ e \in Tables /\ e.task = d.task /\ e.question = d.question /\ e.input = d.input
      /\ e.history = d.history /\ e.outbound = [d.outbound EXCEPT ![m] = o]
  BY <1>2, <1>3
<1>5. e.outbound[m] = o /\ \A k \in Messages \ {m} : e.outbound[k] = d.outbound[k]
  BY <1>1, <1>4
<1>. QED  BY <1>3, <1>4, <1>5 DEF Put

Statuses == {"absent", "queued", "sending", "uncertain", "sent", "cancelled", "dead_letter"}

\* mark_sending, mark_retry and the others that change the status of a message only.
LEMMA StatusMoves ==
    ASSUME D!DialogueAssumption, TablesOK(db), NEW m \in Messages, NEW s \in Statuses,
           db.outbound[m].status # "sent", db' = D!Row(m, s)
    PROVE  Moves(db, db')
<1>1. PICK d, o : d = db /\ o = [d.outbound[m] EXCEPT !.status = s]
  OBVIOUS
<1>2. /\ TablesOK(d) /\ d.outbound[m].status # "sent"
      /\ d \in Tables /\ d.outbound[m] \in D!OutboundRow /\ MessageOK(d.outbound[m], d.question)
  BY <1>1 DEF TablesOK, Tables
<1>3. o \in D!OutboundRow /\ MessageStays(d.outbound[m], o)
  BY <1>1, <1>2 DEF D!OutboundRow, Statuses, MessageStays
<1>4. MessageOK(o, d.question)
  BY <1>2, <1>3 DEF MessageOK, MessageStays
<1>5. PICK e : e = Put(d, m, o)
  OBVIOUS
<1>6. db' = e
  BY <1>1, <1>5 DEF D!Row, Put
<1>7. /\ e \in Tables /\ e.task = d.task /\ e.question = d.question /\ e.input = d.input
      /\ e.history = d.history /\ e.outbound[m] = o
      /\ \A k \in Messages \ {m} : e.outbound[k] = d.outbound[k]
  BY <1>2, <1>3, <1>5, Replaced, SMTT(20)
<1>8. Moves(d, e)
  BY <1>2, <1>4, <1>7, MessageMoves, SMTT(20)
<1>. QED  BY <1>1, <1>6, <1>8

LEMMA EnqueueMoves ==
    ASSUME D!DialogueAssumption, TablesOK(db), NEW m \in Messages, D!Enqueue(m)
    PROVE  Moves(db, db')
<1>1. PICK d : d = db
  OBVIOUS
<1>2. /\ TablesOK(d) /\ d \in Tables /\ d.outbound[m].status = "absent"
  BY <1>1 DEF TablesOK, D!Enqueue
<1>3. ASSUME NEW o \in D!OutboundRow, MessageOK(o, d.question), db' = Put(d, m, o)
      PROVE  Moves(db, db')
  <2>1. PICK e : e = Put(d, m, o)
    OBVIOUS
  <2>2. /\ e \in Tables /\ e.task = d.task /\ e.question = d.question /\ e.input = d.input
        /\ e.history = d.history /\ e.outbound[m] = o
        /\ \A k \in Messages \ {m} : e.outbound[k] = d.outbound[k]
    BY <1>2, <1>3, <2>1, Replaced, SMTT(20)
  <2>3. d.outbound[m].status # "sent" /\ MessageOK(e.outbound[m], d.question)
    BY <1>2, <1>3, <2>2
  <2>4. Moves(d, e)
    BY <1>2, <2>2, <2>3, MessageMoves, SMTT(20)
  <2>. QED  BY <1>1, <1>3, <2>1, <2>4
<1>4. ASSUME NEW t \in D!Tasks,
             db' = [db EXCEPT !.outbound[m] = [D!NoOutbound EXCEPT !.task = t, !.revision = 1,
                                                                   !.status = "queued"]]
      PROVE  Moves(db, db')
  <2>1. PICK o : o = [D!NoOutbound EXCEPT !.task = t, !.revision = 1, !.status = "queued"]
    OBVIOUS
  <2>2. o \in D!OutboundRow /\ o.question = None
    <3>1. t \in 0 .. MaxTasks /\ 1 \in 0 .. MaxRevision /\ None \in Questions \cup {None}
      BY Constants
    <3>2. {} \in D!Candidates
      BY DEF D!Candidates
    <3>. QED  BY <2>1, <3>1, <3>2 DEF D!OutboundRow, D!NoOutbound
  <2>3. MessageOK(o, d.question)
    BY <2>2 DEF MessageOK
  <2>4. db' = Put(d, m, o)
    BY <1>1, <1>4, <2>1 DEF Put
  <2>. QED  BY <1>3, <2>2, <2>3, <2>4
<1>5. ASSUME NEW q \in Questions, db.question[q].status = "pending",
             db' = [db EXCEPT !.outbound[m] = [D!NoOutbound EXCEPT !.question = q,
                                                 !.revision = db.question[q].revision,
                                                 !.shown = db.question[q].offers,
                                                 !.status = "queued"]]
      PROVE  Moves(db, db')
  <2>1. PICK v, c : v = d.question[q].revision /\ c = d.question[q].offers
    OBVIOUS
  <2>2. PICK o : o = [D!NoOutbound EXCEPT !.question = q, !.revision = v, !.shown = c,
                                          !.status = "queued"]
    OBVIOUS
  <2>3. v \in 0 .. MaxRevision /\ c \in D!Candidates /\ d.question[q].status = "pending"
    <3>1. d.question[q] \in D!QuestionRow /\ QuestionOK(d.question[q]) /\ d.question[q].status = "pending"
      BY <1>1, <1>2, <1>5 DEF TablesOK, Tables
    <3>2. v \in 0 .. MaxRevision + 1 /\ v <= MaxRevision /\ c \in D!Candidates
      BY <2>1, <3>1 DEF D!QuestionRow, QuestionOK
    <3>3. v \in 0 .. MaxRevision
      BY <3>2, Constants, SMTT(20)
    <3>. QED  BY <3>1, <3>2, <3>3
  <2>4. o \in D!OutboundRow /\ o.question = q /\ o.revision = v /\ o.shown = c
    <3>1. 0 \in 0 .. MaxTasks /\ q \in Questions \cup {None}
      BY Constants
    <3>. QED  BY <2>2, <2>3, <3>1 DEF D!OutboundRow, D!NoOutbound
  <2>5. v <= v
    BY <2>3, Constants, SMTT(20)
  <2>6. MessageOK(o, d.question)
    BY <2>1, <2>3, <2>4, <2>5 DEF MessageOK
  <2>7. db' = Put(d, m, o)
    BY <1>1, <1>5, <2>1, <2>2 DEF Put
  <2>. QED  BY <1>3, <2>4, <2>6, <2>7
<1>. QED  BY <1>4, <1>5 DEF D!Enqueue

LEMMA SentMoves ==
    ASSUME D!DialogueAssumption, TablesOK(db), NEW m \in Messages, D!MarkSent(m)
    PROVE  Moves(db, db')
<1>1. PICK d, o, h : d = db /\ o = d.outbound[m] /\ h = d.history
  OBVIOUS
<1>2. /\ TablesOK(d) /\ d \in Tables /\ o.status = "sending" /\ o \in D!OutboundRow
      /\ MessageOK(o, d.question) /\ h \in Seq(D!Entry)
  BY <1>1 DEF TablesOK, Tables, D!MarkSent
<1>3. PICK b \in BOOLEAN : db' = D!Confirmed(d, m, b)
  BY <1>1 DEF D!MarkSent
<1>4. PICK y, z, g : /\ y = [o EXCEPT !.status = "sent", !.confirmed = b]
                     /\ z = [task |-> o.task, role |-> "assistant", source |-> m]
                     /\ g = IF o.task = 0 THEN h ELSE Append(h, z)
  OBVIOUS
<1>5. /\ y \in D!OutboundRow /\ y.status = "sent" /\ y.question = o.question
      /\ y.revision = o.revision /\ y.shown = o.shown
  BY <1>2, <1>4 DEF D!OutboundRow
<1>6. MessageOK(y, d.question)
  BY <1>2, <1>5 DEF MessageOK
<1>7. o.task # 0 => z \in D!Entry /\ z.role = "assistant" /\ z.source = m
  <2>1. o.task # 0 => o.task \in D!Tasks
    BY <1>2, Constants DEF D!OutboundRow
  <2>. QED  BY <1>4, <2>1 DEF D!Entry
<1>8. g \in Seq(D!Entry)
  BY <1>2, <1>4, <1>7, Pushed
<1>9. PICK x, e : x = Put(d, m, y) /\ e = [x EXCEPT !.history = g]
  OBVIOUS
<1>10. /\ x \in Tables /\ x.task = d.task /\ x.question = d.question /\ x.input = d.input
       /\ x.history = d.history /\ x.outbound[m] = y
       /\ \A k \in Messages \ {m} : x.outbound[k] = d.outbound[k]
  <2>1. x = Put(d, m, y)
    BY <1>9
  <2>. QED  BY <1>2, <1>5, <2>1, Replaced, SMTT(20)
<1>11. /\ e \in Tables /\ e.task = x.task /\ e.question = x.question /\ e.input = x.input
       /\ e.history = g /\ e.outbound = x.outbound
  BY <1>8, <1>9, <1>10 DEF Tables
<1>12. db' = e
  BY <1>1, <1>3, <1>4, <1>9 DEF D!Confirmed, Put
<1>13. /\ e.task = d.task /\ e.question = d.question /\ e.input = d.input
       /\ \A k \in Messages \ {m} : e.outbound[k] = d.outbound[k]
       /\ MessageOK(e.outbound[m], d.question) /\ d.outbound[m].status # "sent"
       /\ e.outbound[m].status = "sent"
  BY <1>1, <1>2, <1>5, <1>6, <1>10, <1>11
<1>14. \/ e.history = d.history
       \/ \E w \in D!Entry : /\ w.role = "assistant" /\ w.source = m
                             /\ e.history = Append(d.history, w)
  BY <1>1, <1>4, <1>7, <1>11
<1>15. Moves(d, e)
  BY <1>2, <1>11, <1>13, <1>14, MessageMoves, SMTT(20)
<1>. QED  BY <1>1, <1>12, <1>15

LEMMA DialogueStep ==
    ASSUME D!DialogueAssumption, TablesOK(db), [D!Next]_(D!vars)
    PROVE  Moves(db, db')
<1>1. CASE db' = db
  BY <1>1, ChangesNothing DEF Changes, Moves
<1>2. CASE D!ApplyPlan
  BY <1>2, PlanMoves
<1>3. ASSUME NEW m \in Messages,
             D!Enqueue(m) \/ D!MarkSending(m) \/ D!MarkSent(m) \/ D!NotSent(m) \/ D!Reconcile(m)
      PROVE  Moves(db, db')
  <2>1. CASE D!MarkSending(m)
    <3>1. \E s \in Statuses : db.outbound[m].status # "sent" /\ db' = D!Row(m, s)
      BY <2>1 DEF D!MarkSending, Statuses
    <3>. QED  BY <3>1, StatusMoves
  <2>2. CASE D!NotSent(m)
    <3>1. \E s \in Statuses : db.outbound[m].status # "sent" /\ db' = D!Row(m, s)
      BY <2>2 DEF D!NotSent, Statuses
    <3>. QED  BY <3>1, StatusMoves
  <2>3. CASE D!Reconcile(m)
    <3>1. \E s \in Statuses : db.outbound[m].status # "sent" /\ db' = D!Row(m, s)
      BY <2>3 DEF D!Reconcile, Statuses
    <3>. QED  BY <3>1, StatusMoves
  <2>. QED  BY <1>3, <2>1, <2>2, <2>3, EnqueueMoves, SentMoves
<1>4. \/ db' = db \/ D!ApplyPlan
      \/ \E m \in Messages : D!Enqueue(m) \/ D!MarkSending(m) \/ D!MarkSent(m) \/ D!NotSent(m)
                             \/ D!Reconcile(m)
  BY DEF D!Next, D!vars, D!OpenContext, D!NextPage, D!CloseContext
<1>. QED  BY <1>1, <1>2, <1>3, <1>4

LEMMA DialogueInit ==
    ASSUME D!DialogueAssumption, D!Init
    PROVE  TablesOK(db)
<1>1. /\ 0 \in 0 .. MaxTasks /\ 0 \in 0 .. 2 /\ 0 \in 0 .. MaxRevision /\ 0 \in 0 .. MaxRevision + 1
  BY Constants, SMTT(20)
<1>2. D!NoTask \in D!TaskRow /\ TaskOK(D!NoTask)
  BY <1>1 DEF D!NoTask, D!TaskRow, TaskOK
<1>3. {} \in D!Candidates
  BY DEF D!Candidates
<1>4. D!NoQuestion \in D!QuestionRow /\ QuestionOK(D!NoQuestion)
  BY <1>1, <1>3 DEF D!NoQuestion, D!QuestionRow, QuestionOK
<1>5. D!NoInput \in D!InputRow /\ ~D!NoInput.known /\ D!NoInput.task = 0 /\ D!NoInput.question = None
  BY <1>1 DEF D!NoInput, D!InputRow
<1>6. D!NoOutbound \in D!OutboundRow /\ D!NoOutbound.question = None
  BY <1>1, <1>3 DEF D!NoOutbound, D!OutboundRow
<1>7. /\ db.task = [t \in D!Tasks |-> D!NoTask] /\ db.question = [q \in Questions |-> D!NoQuestion]
      /\ db.input = [i \in Inputs |-> D!NoInput] /\ db.history = <<>>
      /\ db.outbound = [m \in Messages |-> D!NoOutbound]
  BY DEF D!Init
<1>8. <<>> \in Seq(D!Entry) /\ \A n \in 1 .. Len(<<>>) : FALSE
  BY SMTT(20)
<1>9. db \in Tables
  BY <1>1, <1>2, <1>4, <1>5, <1>6, <1>8 DEF D!Init, Tables
<1>10. HistoryOK(db.history, db.input, db.outbound)
  BY <1>7, <1>8 DEF HistoryOK
<1>11. \A i \in Inputs : InputOK(db.input[i], db.question, db.task)
  BY <1>5, <1>7 DEF InputOK
<1>12. \A m \in Messages : MessageOK(db.outbound[m], db.question)
  BY <1>6, <1>7 DEF MessageOK
<1>. QED  BY <1>2, <1>4, <1>7, <1>9, <1>10, <1>11, <1>12 DEF TablesOK

LEMMA TablesInductive ==
    ASSUME D!DialogueAssumption
    PROVE  D!Spec => []TablesOK(db)
<1>1. D!Init => TablesOK(db)
  BY DialogueInit
<1>2. TablesOK(db) /\ [D!Next]_(D!vars) => TablesOK(db)'
  BY DialogueStep DEF Moves
<1>. QED  BY <1>1, <1>2, PTL DEF D!Spec

\* The dialogue tables of a conversation keep their types and agree with each other through
\* every plan and every step of its outbound messages (dialogue/store.py): an input waits
\* exactly while its question is pending and then belongs to the task that was chosen, and a
\* history has the message of each of its task's inputs at most once, and no other input's.
THEOREM DialogueTables ==
    ASSUME D!DialogueAssumption
    PROVE  D!Spec => [](D!TypeOK /\ D!InputsFollowQuestion /\ D!HistoryOfItsInputs)
<1>1. ASSUME TablesOK(db) PROVE D!TypeOK
  BY <1>1 DEF TablesOK, Tables, D!TypeOK
<1>2. ASSUME TablesOK(db) PROVE D!InputsFollowQuestion
  BY <1>2 DEF TablesOK, InputOK, D!InputsFollowQuestion
<1>3. ASSUME TablesOK(db) PROVE D!HistoryOfItsInputs
  BY <1>3 DEF TablesOK, HistoryOK, EntryOK, D!HistoryOfItsInputs
<1>. QED  BY <1>1, <1>2, <1>3, TablesInductive, PTL

\* A question is decided by what its user saw (_resolve_question): when a plan chooses a task
\* that existed, a confirmed message of the question offered that task at the revision it has,
\* also when the question was refreshed while an older message was on its way.
THEOREM DecidedFromWhatWasShown ==
    ASSUME D!DialogueAssumption
    PROVE  D!Spec => D!ChosenFromWhatWasShown
<1>1. ASSUME TablesOK(db), [D!Next]_(D!vars)
      PROVE  \A q \in Questions :
               db.question[q].status = "pending" /\ db'.question[q].status = "resolved" =>
                 LET t == db'.question[q].resolved IN
                 db.task[t].status # "absent" =>
                   \E m \in Messages : /\ db.outbound[m].question = q /\ db.outbound[m].confirmed
                                       /\ <<t, db.task[t].revision>> \in db.outbound[m].shown
  BY <1>1, DialogueStep DEF Moves, Chooses, Offered
<1>. QED  BY <1>1, TablesInductive, PTL DEF D!Spec, D!ChosenFromWhatWasShown

\* What a task has heard.
SaidTo(d, t) == {i \in Inputs : \E n \in 1 .. Len(d.history) : d.history[n] = D!UserEntry(i, t)}

LEMMA SaidLasts ==
    ASSUME D!DialogueAssumption, NEW d, NEW e, TablesOK(d), TablesOK(e), Lasts(d, e),
           NEW t \in D!Tasks
    PROVE  /\ SaidTo(d, t) \subseteq SaidTo(e, t)
           /\ SaidTo(e, t) \subseteq {i \in Inputs : e.input[i].task = t}
           /\ d.task[t].status \in D!Terminal => SaidTo(e, t) = SaidTo(d, t)
<1>1. d.history \in Seq(D!Entry) /\ e.history \in Seq(D!Entry)
  BY DEF TablesOK, Tables
<1>2. /\ HistoryLasts(d.history, e.history) /\ NewsOK(d.history, e.history, d.task)
      /\ HistoryOK(e.history, e.input, e.outbound)
  BY DEF Lasts, TablesOK
<1>3. /\ \A n \in 1 .. Len(d.history) : n \in 1 .. Len(e.history) /\ e.history[n] = d.history[n]
      /\ \A n \in 1 .. Len(e.history) :
           n \in 1 .. Len(d.history) \/ n \in Len(d.history) + 1 .. Len(e.history)
  BY <1>1, <1>2, SMTT(20) DEF HistoryLasts
<1>4. \A i : LET z == D!UserEntry(i, t) IN z.role = "user" /\ z.task = t /\ z.source = i
  BY EntryFields
<1>5. SaidTo(d, t) \subseteq SaidTo(e, t)
  BY <1>3 DEF SaidTo
<1>6. ASSUME NEW i \in SaidTo(e, t) PROVE i \in Inputs /\ e.input[i].task = t
  <2>1. PICK n \in 1 .. Len(e.history) : i \in Inputs /\ e.history[n] = D!UserEntry(i, t)
    BY <1>6 DEF SaidTo
  <2>2. e.history[n].role = "user" /\ e.history[n].task = t /\ e.history[n].source = i
    BY <1>4, <2>1
  <2>3. EntryOK(e.history[n], e.input, e.outbound)
    BY <1>2 DEF HistoryOK
  <2>. QED  BY <2>1, <2>2, <2>3 DEF EntryOK
<1>7. ASSUME d.task[t].status \in D!Terminal, NEW i \in SaidTo(e, t) PROVE i \in SaidTo(d, t)
  <2>1. PICK n \in 1 .. Len(e.history) : i \in Inputs /\ e.history[n] = D!UserEntry(i, t)
    BY <1>7 DEF SaidTo
  <2>2. n \notin Len(d.history) + 1 .. Len(e.history)
    <3>1. e.history[n].role = "user" /\ e.history[n].task = t
      BY <1>4, <2>1
    <3>. QED  BY <1>2, <1>7, <3>1 DEF NewsOK
  <2>. QED  BY <1>3, <2>1, <2>2 DEF SaidTo
<1>. QED  BY <1>5, <1>6, <1>7

LEMMA ContractStep ==
    ASSUME D!DialogueAssumption, TablesOK(db), TablesOK(db)', Lasts(db, db')
    PROVE  D!Contract!Give
<1>1. PICK d, e : d = db /\ e = db'
  OBVIOUS
<1>2. TablesOK(d) /\ TablesOK(e) /\ Lasts(d, e) /\ e \in Tables
  BY <1>1 DEF TablesOK
<1>3. /\ \A i \in Inputs : e.input[i].task \in {0} \cup D!Tasks
      /\ \A t \in D!Tasks : e.task[t].status \in {"absent", "active"} \cup {"closed", "cancelled"}
  BY <1>2, Constants DEF Tables, D!InputRow, D!TaskRow, D!Terminal
<1>4. \A i \in Inputs : d.input[i].task # 0 => e.input[i].task = d.input[i].task
  BY <1>2 DEF Lasts, InputLasts
<1>5. \A t \in D!Tasks :
        /\ d.task[t].status # "absent" => e.task[t].status # "absent"
        /\ d.task[t].status \in {"closed", "cancelled"} => e.task[t].status = d.task[t].status
  BY <1>2 DEF Lasts, TaskLasts, D!Terminal
<1>6. \A i \in Inputs : e.input[i].task # 0 => e.task[e.input[i].task].status # "absent"
  BY <1>2 DEF TablesOK, InputOK
<1>7. \A t \in D!Tasks :
        /\ SaidTo(d, t) \subseteq SaidTo(e, t)
        /\ SaidTo(e, t) \subseteq {i \in Inputs : e.input[i].task = t}
        /\ d.task[t].status \in {"closed", "cancelled"} => SaidTo(e, t) = SaidTo(d, t)
  BY <1>2, SaidLasts DEF D!Terminal
<1>. DEFINE H == [i \in Inputs |-> db.input[i].task]
            L == [t \in D!Tasks |-> db.task[t].status]
            S == [t \in D!Tasks |-> {i \in Inputs : \E n \in 1 .. Len(db.history) :
                                       db.history[n] = D!UserEntry(i, t)}]
<1>8. PICK h, k, l, m, s, v : h = H /\ k = H' /\ l = L /\ m = L' /\ s = S /\ v = S'
  OBVIOUS
<1>9. /\ h = [i \in Inputs |-> d.input[i].task] /\ k = [i \in Inputs |-> e.input[i].task]
      /\ l = [t \in D!Tasks |-> d.task[t].status] /\ m = [t \in D!Tasks |-> e.task[t].status]
  BY <1>1, <1>8
<1>10. s = [t \in D!Tasks |-> SaidTo(d, t)] /\ v = [t \in D!Tasks |-> SaidTo(e, t)]
  BY <1>1, <1>8 DEF SaidTo
<1>11. /\ k \in [Inputs -> {0} \cup D!Tasks]
       /\ \A i \in Inputs : h[i] # 0 => k[i] = h[i]
  BY <1>3, <1>4, <1>9
<1>12. /\ m \in [D!Tasks -> {"absent", "active"} \cup {"closed", "cancelled"}]
       /\ \A t \in D!Tasks : /\ l[t] # "absent" => m[t] # "absent"
                             /\ l[t] \in {"closed", "cancelled"} => m[t] = l[t]
  BY <1>3, <1>5, <1>9
<1>13. \A i \in Inputs : k[i] # 0 => m[k[i]] # "absent"
  BY <1>3, <1>6, <1>9
<1>14. v \in [D!Tasks -> SUBSET Inputs]
  <2>1. \A t \in D!Tasks : SaidTo(e, t) \in SUBSET Inputs
    BY DEF SaidTo
  <2>. QED  BY <1>10, <2>1
<1>15. \A t \in D!Tasks : /\ s[t] \subseteq v[t]
                          /\ v[t] \subseteq {i \in Inputs : k[i] = t}
                          /\ l[t] \in {"closed", "cancelled"} => v[t] = s[t]
  BY <1>7, <1>9, <1>10
<1>. HIDE DEF H, L, S
<1>16. /\ H' \in [Inputs -> {0} \cup D!Tasks]
       /\ \A i \in Inputs : H[i] # 0 => H'[i] = H[i]
       /\ L' \in [D!Tasks -> {"absent", "active"} \cup {"closed", "cancelled"}]
       /\ \A t \in D!Tasks : /\ L[t] # "absent" => L'[t] # "absent"
                             /\ L[t] \in {"closed", "cancelled"} => L'[t] = L[t]
       /\ \A i \in Inputs : H'[i] # 0 => L'[H'[i]] # "absent"
       /\ S' \in [D!Tasks -> SUBSET Inputs]
       /\ \A t \in D!Tasks : /\ S[t] \subseteq S'[t]
                             /\ S'[t] \subseteq {i \in Inputs : H'[i] = t}
                             /\ L[t] \in {"closed", "cancelled"} => S'[t] = S[t]
  BY <1>8, <1>11, <1>12, <1>13, <1>14, <1>15
<1>. QED  BY <1>16 DEF H, L, S, D!Contract!Give, D!Contract!Finished

\* The tables implement DialogueContract: whatever plans, questions and replies do, an input is
\* given to a task once and for good, a finished task stays finished and hears nothing more,
\* and a task hears only inputs that were given to it.
THEOREM DialogueKeepsContract ==
    ASSUME D!DialogueAssumption
    PROVE  D!Spec => D!KeepsContract
<1>1. ASSUME D!Init PROVE D!Contract!Init
  <2>1. /\ \A i \in Inputs : db.input[i].task = 0
        /\ \A t \in D!Tasks : db.task[t].status = "absent"
    BY <1>1 DEF D!Init, D!NoInput, D!NoTask
  <2>2. db.history = <<>> /\ \A n \in 1 .. Len(<<>>) : FALSE
    BY <1>1, SMTT(20) DEF D!Init
  <2>3. \A t : {i \in Inputs : \E n \in 1 .. Len(db.history) : db.history[n] = D!UserEntry(i, t)} = {}
    BY <2>2
  <2>. QED  BY <2>1, <2>3 DEF D!Contract!Init
<1>2. ASSUME TablesOK(db), TablesOK(db)', [D!Next]_(D!vars)
      PROVE  [D!Contract!Give]_(D!Contract!vars)
  BY <1>2, DialogueStep, ContractStep DEF Moves
<1>. QED  BY <1>1, <1>2, TablesInductive, PTL DEF D!Spec, D!KeepsContract, D!Contract!Spec

=============================================================================
