------------------------- MODULE LlmExecutionProofs -------------------------
(***************************************************************************)
(* Proofs about LlmExecution, for any number of workers, any lease time    *)
(* and budget, and any number of threads, turns and faults.                *)
(***************************************************************************)
EXTENDS LlmExecution, TLAPS

\* Most steps are first-order reasoning; those that are not name their prover.
USE Zenon

Local == [at : Stages, token : Tokens, mine : Checkpoint, next : Checkpoint,
          then : Stages \cup {"starting"}, turn : 0 .. MaxTurns,
          slow : BOOLEAN, late : BOOLEAN]

Same(c, d) == c.state = d.state /\ c.thread = d.thread /\ c.receipt = d.receipt

HasTurn == {"accepted", "pausing", "paused", "completed"}

----------------------------------------------------------------------------
\* What a worker has in memory at each stage, whether or not it still has the lease.

SavingShape(l) ==
    \/ l.next.state = "opened" /\ l.then = "opening" /\ l.mine.state = "none" /\ ~l.late
         /\ l.next.thread = 0
    \/ l.next.state = "opened" /\ l.then = "starting" /\ l.mine.state = "opened" /\ ~l.late
         /\ l.next.thread # 0
    \/ l.next.state = "sending" /\ l.then = "sending" /\ l.mine.state \in {"opened", "paused"}
         /\ ~l.late /\ l.next.thread = l.mine.thread /\ l.next.thread # 0
    \/ l.next.state = "accepted" /\ l.then = "capturing"
    \/ l.next.state = "pausing" /\ l.then = "interrupting"
    \/ l.next.state = "completed" /\ l.then = "closing"
    \/ l.next.state = "paused" /\ l.then = "starting" /\ ~l.late /\ l.next.thread # 0
    \/ l.next.state = "paused" /\ l.then = "expired"
    \/ l.next.state \in {"cancelled", "failed"} /\ l.then \in {"aborting", "failing"}

Shape(l) ==
    /\ l.at = "idle" => l = Idle
    /\ l.at # "idle" => l.token # NoToken
    /\ l.at = "loading" => l.mine.state = "none" /\ ~l.late
    /\ l.at = "saving" => SavingShape(l)
    /\ l.at # "saving" => l.next = NoCheckpoint
    /\ l.at = "opening" => l.mine.state = "opened" /\ l.mine.thread = 0 /\ ~l.late
    /\ l.at = "resuming" =>
         l.mine.state \in {"opened", "accepted", "pausing", "paused"} /\ l.mine.thread # 0 /\ ~l.late
    /\ l.at \in {"sending", "sent"} => l.mine.state = "sending" /\ l.mine.thread # 0 /\ ~l.late
    /\ l.at = "sent" => l.turn # 0
    /\ l.at = "capturing" => l.mine.state = "accepted" /\ l.mine.receipt # 0
    /\ l.at = "interrupting" => l.mine.state = "pausing" /\ l.mine.receipt # 0
    /\ l.at = "closing" => l.mine.state = "completed"
    /\ l.mine.state = "none" => l.mine.receipt = 0 /\ l.mine.thread = 0
    /\ l.mine.state \in {"accepted", "pausing", "paused"} => l.mine.receipt # 0 /\ l.mine.thread # 0
    /\ l.next.state \in HasTurn => l.next.receipt # 0 /\ l.next.thread # 0

\* Receipts name turns that were started, and what is left of the budget has not been
\* spent since the first thread was opened.
Bounds(c) ==
    /\ c.receipt <= Len(turns)
    /\ c.state # "none" => c.left + age <= Budget

WorkerOK(l) ==
    /\ Shape(l)
    /\ Bounds(l.mine) /\ Bounds(l.next)
    /\ l.turn <= Len(turns)

WorkerInv == \A w \in Workers :
    WorkerOK(local[w]) /\ (local[w].at = "opening" => saved.state # "none")

\* A worker that has a token has its own.
TokenInv ==
    /\ run.status = "running" => run.token # NoToken
    /\ \A w \in Workers : local[w].token \in {NoToken, Token(w)}

\* The saved checkpoint and the native turns.
SavedInv ==
    /\ Bounds(saved)
    /\ threads = 0 => age = 0
    /\ saved.state = "none" => threads = 0 /\ saved = NoCheckpoint
    /\ saved.state \in {"none", "opened"} => turns = << >>
    /\ \A i \in DOMAIN turns : turns[i].thread = saved.thread /\ saved.thread # 0
    /\ \A i \in DOMAIN turns : i < Len(turns) => turns[i].status # "running"
    /\ saved.state \in HasTurn => saved.receipt = Len(turns) /\ saved.receipt # 0 /\ saved.thread # 0
    /\ saved.state = "paused" => turns[Len(turns)].status # "running"
    /\ saved.state = "completed" => turns[Len(turns)].status = "done"

Working == {"resuming", "opening", "saving", "sending", "sent", "capturing", "interrupting",
            "closing", "expired"}

\* What the worker that holds the lease may rely on when s is saved.  Its copy may be
\* ahead of s, when a save of it was interrupted, but not when it is to start a turn.
HolderOK(l, s) ==
    /\ l.at \in Working => s.thread = 0 \/ l.mine.thread = s.thread
    /\ l.at = "saving" => s.thread = 0 \/ l.next.thread = s.thread
    /\ l.at = "opening" \/ (l.at = "saving" /\ l.next.state = "opened" /\ l.then = "starting") =>
         s.state = "opened" /\ s.thread = 0
    /\ l.at = "saving" /\ l.then = "opening" => s.state = "none"
    /\ l.at = "resuming" \/ (l.at = "saving" /\ l.next.state = "sending") => Same(s, l.mine)
    /\ l.at = "sent" => l.turn = Len(turns)
    /\ l.at \in {"capturing", "interrupting"} => l.mine.receipt = Len(turns)
    /\ l.at = "saving" /\ l.next.state \in HasTurn => l.next.receipt = Len(turns)
    /\ l.at = "saving" /\ l.next.state = "completed" => turns[Len(turns)].status = "done"
    /\ l.at = "saving" /\ l.next.state = "paused" => turns[Len(turns)].status # "running"

HolderInv == \A w \in Workers : Holds(w) => HolderOK(local[w], saved)

\* Stages in which a worker that took the lease over can do nothing to the request but
\* end it.
Harmless(l) ==
    \/ l.at \in {"loading", "failing", "aborting"}
    \/ l.at = "saving" /\ l.next.state \in {"cancelled", "failed"}

\* While a worker is about to start a turn no turn is running, nobody else is about to,
\* and whoever has taken its lease away found its mark in the saved checkpoint.
SenderInv == \A v \in Workers : local[v].at = "sending" =>
    /\ saved.state \in {"sending", "cancelled", "failed"}
    /\ saved.thread = local[v].mine.thread
    /\ \A i \in DOMAIN turns : turns[i].status # "running"
    /\ \A w \in Workers : w # v =>
         local[w].at # "sending" /\ (Holds(w) => Harmless(local[w]))

IInv == TypeOK /\ TokenInv /\ SavedInv /\ WorkerInv /\ HolderInv /\ SenderInv

----------------------------------------------------------------------------
\* Checkpoints and workers keep their types.

LEMMA Numbers ==
    /\ Budget \in Nat /\ MaxTurns \in Nat /\ MaxThreads \in Nat /\ StaleSeconds \in Nat
    /\ MaxFaults \in Nat
BY LlmAssumption, SMT

LEMMA TokenFacts ==
    /\ NoToken \in Tokens
    /\ \A w \in Workers : Token(w) \in Tokens /\ Token(w) # NoToken
    /\ \A v, w \in Workers : Token(v) = Token(w) => v = w
BY SMT DEF NoToken, Token, Tokens

LEMMA CheckpointFields ==
    ASSUME NEW c \in Checkpoint
    PROVE  /\ c.state \in CheckpointState /\ c.thread \in 0 .. MaxThreads
           /\ c.receipt \in 0 .. MaxTurns /\ c.left \in 0 .. Budget
           /\ c.thread \in Nat /\ c.receipt \in Nat /\ c.left \in Nat
BY Numbers, SMT DEF Checkpoint

LEMMA NoCheckpointFields ==
    /\ NoCheckpoint \in Checkpoint
    /\ NoCheckpoint.state = "none" /\ NoCheckpoint.thread = 0 /\ NoCheckpoint.receipt = 0
    /\ NoCheckpoint.left = Budget
BY Numbers, SMT DEF NoCheckpoint, Checkpoint, CheckpointState

LEMMA AsFields ==
    ASSUME NEW c \in Checkpoint, NEW s \in CheckpointState
    PROVE  /\ As(c, s) \in Checkpoint /\ As(c, s).state = s /\ As(c, s).thread = c.thread
           /\ As(c, s).receipt = c.receipt /\ As(c, s).left = c.left
BY SMT DEF As, Checkpoint

LEMMA OpenedFields ==
    ASSUME NEW c \in Checkpoint, NEW n \in 0 .. MaxThreads
    PROVE  /\ Opened(c, n) \in Checkpoint /\ Opened(c, n).state = "opened"
           /\ Opened(c, n).thread = n
           /\ Opened(c, n).receipt = c.receipt /\ Opened(c, n).left = c.left
BY DEF Opened, Checkpoint, CheckpointState

LEMMA SendingFields ==
    ASSUME NEW c \in Checkpoint
    PROVE  /\ Sending(c) \in Checkpoint /\ Sending(c).state = "sending"
           /\ Sending(c).thread = c.thread
           /\ Sending(c).receipt = 0 /\ Sending(c).left = c.left
<1>1. 0 \in 0 .. MaxTurns
  BY Numbers, SMT
<1>. QED  BY <1>1 DEF Sending, Checkpoint, CheckpointState

LEMMA AcceptedFields ==
    ASSUME NEW c \in Checkpoint, NEW i \in 0 .. MaxTurns
    PROVE  /\ Accepted(c, i) \in Checkpoint /\ Accepted(c, i).state = "accepted"
           /\ Accepted(c, i).thread = c.thread
           /\ Accepted(c, i).receipt = i /\ Accepted(c, i).left = c.left
BY DEF Accepted, Checkpoint, CheckpointState

LEMMA LocalFields ==
    ASSUME NEW l \in Local
    PROVE  /\ l.at \in Stages /\ l.token \in Tokens /\ l.mine \in Checkpoint
           /\ l.next \in Checkpoint /\ l.then \in Stages \cup {"starting"}
           /\ l.turn \in 0 .. MaxTurns /\ l.slow \in BOOLEAN /\ l.late \in BOOLEAN
BY DEF Local

LEMMA IdleFields ==
    /\ Idle \in Local /\ Idle.at = "idle" /\ Idle.token = NoToken /\ Idle.mine = NoCheckpoint
    /\ Idle.next = NoCheckpoint /\ Idle.then = "idle" /\ Idle.turn = 0 /\ Idle.late = FALSE
<1>1. 0 \in 0 .. MaxTurns
  BY Numbers, SMT
<1>. QED  BY <1>1, NoCheckpointFields, TokenFacts DEF Idle, Local, Stages

LEMMA AwaitFields ==
    ASSUME NEW l \in Local, NEW s \in Stages, NEW c \in Checkpoint, NEW m, m = Await(l, s, c)
    PROVE  /\ m \in Local /\ m.at = s /\ m.token = l.token /\ m.mine = c
           /\ m.next = NoCheckpoint /\ m.then = "idle" /\ m.turn = l.turn /\ m.late = l.late
BY NoCheckpointFields DEF Await, Local, Stages

LEMMA SavingFields ==
    ASSUME NEW l \in Local, NEW c \in Checkpoint, NEW s \in Stages \cup {"starting"},
           NEW m, m = Saving(l, c, s)
    PROVE  /\ m \in Local /\ m.at = "saving" /\ m.token = l.token /\ m.mine = l.mine
           /\ m.next = c /\ m.then = s /\ m.turn = l.turn /\ m.late = l.late
BY DEF Saving, Local, Stages

LEMMA MineFields ==
    ASSUME NEW l \in Local, NEW c \in Checkpoint, NEW m, m = [l EXCEPT !.mine = c]
    PROVE  /\ m \in Local /\ m.at = l.at /\ m.token = l.token /\ m.mine = c
           /\ m.next = l.next /\ m.then = l.then /\ m.turn = l.turn /\ m.late = l.late
BY SMT DEF Local

----------------------------------------------------------------------------
\* What a worker has in memory, and the native turns.

LEMMA LocalTyped ==
    ASSUME TypeOK, NEW w \in Workers
    PROVE  local[w] \in Local
BY DEF TypeOK, Local

LEMMA BoundsOf ==
    ASSUME NEW c \in Checkpoint, NEW d \in Checkpoint, Bounds(c), c.state # "none",
           d.left = c.left, d.receipt = c.receipt
    PROVE  Bounds(d)
<1>1. c.receipt <= Len(turns) /\ c.left + age <= Budget
  BY DEF Bounds
<1>2. d.receipt <= Len(turns) /\ d.left + age <= Budget
  BY <1>1
<1>. QED  BY <1>2 DEF Bounds

LEMMA NoCheckpointBounds ==
    ASSUME TypeOK
    PROVE  Bounds(NoCheckpoint) /\ 0 <= Len(turns)
<1>1. Len(turns) \in Nat
  BY SMT DEF TypeOK
<1>2. 0 <= Len(turns)
  BY <1>1, SMT
<1>. QED  BY <1>2, NoCheckpointFields DEF Bounds

\* The copy of the checkpoint in a worker's memory, when the worker is all right.
MineOK(c) ==
    /\ Bounds(c)
    /\ c.state = "none" => c.receipt = 0 /\ c.thread = 0
    /\ c.state \in {"accepted", "pausing", "paused"} => c.receipt # 0 /\ c.thread # 0

LEMMA WorkerFacts ==
    ASSUME IInv, NEW w \in Workers
    PROVE  /\ local[w] \in Local /\ WorkerOK(local[w]) /\ Shape(local[w])
           /\ MineOK(local[w].mine) /\ local[w].mine \in Checkpoint
           /\ local[w].next \in Checkpoint /\ Bounds(local[w].next)
           /\ local[w].turn <= Len(turns) /\ local[w].turn \in 0 .. MaxTurns
           /\ local[w].at # "idle" => local[w].token # NoToken
           /\ TypeOK /\ (Holds(w) => HolderOK(local[w], saved))
<1>1. TypeOK /\ WorkerOK(local[w]) /\ (Holds(w) => HolderOK(local[w], saved))
  BY DEF IInv, WorkerInv, HolderInv
<1>2. local[w] \in Local
  BY <1>1, LocalTyped
<1>3. Shape(local[w])
  BY <1>1 DEF WorkerOK
<1>. QED  BY <1>1, <1>2, <1>3, LocalFields DEF WorkerOK, Shape, MineOK

LEMMA TurnsTyped ==
    ASSUME TypeOK
    PROVE  /\ Len(turns) \in Nat /\ DOMAIN turns = 1 .. Len(turns)
           /\ \A i \in DOMAIN turns :
                /\ turns[i] \in [thread : 1 .. MaxThreads, status : {"running", "done", "stopped"}]
                /\ turns[i].status \in {"running", "done", "stopped"}
<1>. DEFINE T == [thread : 1 .. MaxThreads, status : {"running", "done", "stopped"}]
<1>1. turns \in Seq(T)
  BY DEF TypeOK
<1>2. \A x \in T : x.status \in {"running", "done", "stopped"}
  OBVIOUS
<1>. HIDE DEF T
<1>3. Len(turns) \in Nat /\ DOMAIN turns = 1 .. Len(turns) /\ \A i \in DOMAIN turns : turns[i] \in T
  BY <1>1, SMT
<1>. QED  BY <1>2, <1>3 DEF T

LEMMA ReceiptIsTurn ==
    ASSUME TypeOK, NEW c \in Checkpoint, MineOK(c), c.receipt # 0
    PROVE  c.receipt \in DOMAIN turns
<1>1. c.receipt \in Nat /\ c.receipt <= Len(turns)
  BY CheckpointFields DEF MineOK, Bounds
<1>. QED  BY <1>1, TurnsTyped, SMT

\* An idle worker is all right.
LEMMA IdleOK ==
    ASSUME TypeOK
    PROVE  WorkerOK(Idle) /\ Idle \in Local /\ Idle.at = "idle"
<1>1. Shape(Idle)
  BY IdleFields, NoCheckpointFields DEF Shape, HasTurn
<1>. QED  BY <1>1, IdleFields, NoCheckpointBounds DEF WorkerOK

LEMMA FaultTyped ==
    ASSUME TypeOK, Fault \/ UNCHANGED faults
    PROVE  faults' \in 0 .. MaxFaults
BY Numbers, SMT DEF TypeOK, Fault

----------------------------------------------------------------------------
\* Initially, and when nothing happens.

LEMMA InitInv == Init => IInv
<1>. SUFFICES ASSUME Init PROVE IInv
  OBVIOUS
<1>1. TypeOK
  <2>1. 0 \in 0 .. MaxThreads /\ 0 \in 0 .. Budget /\ 0 \in 0 .. MaxFaults
        /\ 0 \in 0 .. StaleSeconds
    BY Numbers, SMT
  <2>2. run \in [status : {"absent", "running", "completed", "failed"},
                 token : Tokens, left : 0 .. StaleSeconds]
    BY <2>1, TokenFacts DEF Init
  <2>3. local \in [Workers -> Local]
    BY IdleFields DEF Init
  <2>4. << >> \in Seq([thread : 1 .. MaxThreads, status : {"running", "done", "stopped"}])
    BY SMT
  <2>. QED  BY <2>1, <2>2, <2>3, <2>4, NoCheckpointFields DEF Init, TypeOK, Local
<1>2. /\ \A w \in Workers : local[w] = Idle
      /\ run.status = "absent" /\ saved = NoCheckpoint /\ threads = 0 /\ turns = << >> /\ age = 0
  BY DEF Init
<1>3. TokenInv
  BY <1>2, IdleFields DEF TokenInv
<1>4. DOMAIN turns = {}
  BY <1>2, SMT
<1>5. SavedInv
  <2>1. Bounds(saved) /\ saved.state = "none"
    BY <1>1, <1>2, NoCheckpointBounds, NoCheckpointFields
  <2>. QED  BY <1>2, <1>4, <2>1 DEF SavedInv, HasTurn
<1>6. WorkerInv
  BY <1>1, <1>2, IdleOK DEF WorkerInv
<1>7. HolderInv /\ SenderInv
  BY <1>2, IdleFields DEF HolderInv, SenderInv, Holds
<1>. QED  BY <1>1, <1>3, <1>5, <1>6, <1>7 DEF IInv

LEMMA StutterInv ==
    ASSUME IInv, UNCHANGED vars
    PROVE  IInv'
<1>1. UNCHANGED <<run, saved, local, threads, turns, age, faults>>
  BY DEF vars, native
<1>2. \A d : Bounds(d)' <=> Bounds(d)
  BY <1>1 DEF Bounds
<1>3. \A m, d : HolderOK(m, d)' <=> HolderOK(m, d)
  BY <1>1, SMT DEF HolderOK
<1>4. \A m : WorkerOK(m)' <=> WorkerOK(m)
  BY <1>1, <1>2 DEF WorkerOK
<1>5. \A v \in Workers : Holds(v)' <=> Holds(v)
  BY <1>1 DEF Holds
<1>6. TypeOK' /\ TokenInv'
  BY <1>1 DEF IInv, TypeOK, TokenInv
<1>7. SavedInv' /\ WorkerInv'
  BY <1>1, <1>2, <1>4 DEF IInv, SavedInv, WorkerInv
<1>8. HolderInv'
  BY <1>1, <1>3, <1>5 DEF IInv, HolderInv
<1>9. SenderInv'
  BY <1>1, <1>5 DEF IInv, SenderInv
<1>. QED  BY <1>6, <1>7, <1>8, <1>9 DEF IInv

----------------------------------------------------------------------------
\* Time passes.

LEMMA ShorterFields ==
    ASSUME NEW c \in Checkpoint
    PROVE  /\ Shorter(c) \in Checkpoint /\ Same(Shorter(c), c)
           /\ Shorter(c).left = Countdown(c.left)
<1>1. Countdown(c.left) \in 0 .. Budget
  BY CheckpointFields, Numbers, SMT DEF Countdown
<1>. QED  BY <1>1 DEF Shorter, Checkpoint, Same

\* Nothing but the time left has changed in a worker's memory.
Aged(m, k) ==
    /\ m.at = k.at /\ m.token = k.token /\ m.then = k.then /\ m.turn = k.turn /\ m.late = k.late
    /\ Same(m.mine, k.mine) /\ Same(m.next, k.next)
    /\ k.at = "idle" => m = k
    /\ k.at # "saving" => m.next = k.next

LEMMA AgedShape ==
    ASSUME NEW m, NEW k, Aged(m, k), Shape(k)
    PROVE  Shape(m)
<1>1. SavingShape(k) => SavingShape(m)
  BY SMT DEF Aged, Same, SavingShape
<1>. QED  BY <1>1, SMT DEF Aged, Same, Shape, HasTurn

LEMMA AgedHolder ==
    ASSUME NEW m, NEW k, Aged(m, k), NEW d, NEW e, Same(e, d), HolderOK(k, d)
    PROVE  HolderOK(m, e)
BY SMT DEF Aged, Same, HolderOK, HasTurn, Working

LEMMA TickInv ==
    ASSUME IInv, Tick
    PROVE  IInv'
<1>. DEFINE Ticked(k) == IF k.at = "idle" THEN k
                         ELSE [k EXCEPT !.slow = TRUE, !.mine = Shorter(@),
                                        !.next = IF k.at = "saving" THEN Shorter(@) ELSE @]
<1>0. TypeOK /\ SavedInv /\ UNCHANGED <<threads, turns>>
  BY DEF IInv, Tick, native
<1>1. local \in [Workers -> Local] /\ local' = [v \in Workers |-> Ticked(local[v])]
  BY <1>0 DEF TypeOK, Local, Tick
<1>2. ASSUME NEW k \in Local
      PROVE  /\ Ticked(k) \in Local /\ Aged(Ticked(k), k)
             /\ k.at # "idle" => Ticked(k).mine = Shorter(k.mine)
             /\ k.at = "saving" => Ticked(k).next = Shorter(k.next)
  <2>1. /\ k.mine \in Checkpoint /\ k.next \in Checkpoint
        /\ Shorter(k.mine) \in Checkpoint /\ Same(Shorter(k.mine), k.mine)
        /\ Shorter(k.next) \in Checkpoint /\ Same(Shorter(k.next), k.next)
    BY LocalFields, ShorterFields
  <2>2. Same(k.mine, k.mine) /\ Same(k.next, k.next)
    BY DEF Same
  <2>3. CASE k.at = "idle"
    BY <2>2, <2>3 DEF Aged
  <2>4. CASE k.at # "idle"
    <3>. DEFINE m == Ticked(k)
                n == IF k.at = "saving" THEN Shorter(k.next) ELSE k.next
    <3>1. n \in Checkpoint /\ Same(n, k.next)
      BY <2>1, <2>2
    <3>2. m = [k EXCEPT !.slow = TRUE, !.mine = Shorter(k.mine), !.next = n]
      BY <2>4 DEF Local
    <3>. HIDE DEF m
    <3>3. /\ m \in Local /\ m.at = k.at /\ m.token = k.token /\ m.then = k.then
          /\ m.turn = k.turn /\ m.late = k.late /\ m.mine = Shorter(k.mine) /\ m.next = n
      <4>. HIDE DEF n
      <4>. QED  BY <2>1, <3>1, <3>2 DEF Local
    <3>4. Aged(m, k)
      BY <2>1, <2>4, <3>1, <3>3 DEF Aged
    <3>. QED  BY <3>3, <3>4 DEF m
  <2>. QED  BY <2>3, <2>4
<1>. HIDE DEF Ticked
<1>3. \A v \in Workers : local'[v] = Ticked(local[v]) /\ Aged(local'[v], local[v])
  BY <1>1, <1>2
<1>4. local' \in [Workers -> Local]
  BY <1>1, <1>2
<1>5. age' \in 0 .. Budget /\ (threads = 0 => age' = age) /\ (age' = age \/ age' = age + 1)
  <2>1. age \in 0 .. Budget /\ age' = IF threads = 0 \/ age = Budget THEN age ELSE age + 1
    BY <1>0 DEF TypeOK, Tick
  <2>. QED  BY <2>1, Numbers, SMT
<1>6. saved' \in Checkpoint /\ Same(saved', saved)
      /\ (saved.state # "none" => saved' = Shorter(saved)) /\ (saved.state = "none" => saved' = saved)
  BY <1>0, ShorterFields DEF Tick, TypeOK, Same
<1>7. /\ run' \in [status : {"absent", "running", "completed", "failed"},
                   token : Tokens, left : 0 .. StaleSeconds]
      /\ run'.status = run.status /\ run'.token = run.token
  <2>1. Countdown(run.left) \in 0 .. StaleSeconds
    BY <1>0, Numbers, SMT DEF TypeOK, Countdown
  <2>. QED  BY <1>0, <2>1 DEF TypeOK, Tick
<1>8. faults' \in 0 .. MaxFaults
  <2>1. faults \in 0 .. MaxFaults /\ (faults' = faults \/ (faults < MaxFaults /\ faults' = faults + 1))
    BY <1>0 DEF TypeOK, Tick
  <2>. QED  BY <2>1, Numbers, SMT
<1>9. TypeOK'
  BY <1>0, <1>4, <1>5, <1>6, <1>7, <1>8 DEF TypeOK, Local
<1>10. ASSUME NEW c \in Checkpoint, Bounds(c), NEW d, d = Shorter(c) PROVE Bounds(d)'
  <2>1. d.state = c.state /\ d.receipt = c.receipt /\ d.left = Countdown(c.left)
    BY <1>10, ShorterFields DEF Same
  <2>2. ASSUME c.state # "none" PROVE d.left + age' <= Budget
    <3>1. c.left \in Nat /\ c.left + age <= Budget /\ age \in Nat
      BY <1>0, <1>10, <2>2, CheckpointFields, Numbers, SMT DEF Bounds, TypeOK
    <3>2. Countdown(c.left) + age' <= Budget
      <4>1. age' \in Nat /\ age' <= Budget /\ (age' = age \/ age' = age + 1)
        BY <1>5, Numbers, SMT
      <4>2. CASE c.left = 0
        <5>1. Countdown(c.left) = 0
          BY <4>2 DEF Countdown
        <5>2. ASSUME NEW a \in 0 .. Budget PROVE 0 + a <= Budget
          BY Numbers, SMT
        <5>. QED  BY <1>5, <5>1, <5>2
      <4>3. CASE c.left # 0
        <5>1. Countdown(c.left) = c.left - 1
          BY <4>3 DEF Countdown
        <5>. QED  BY <3>1, <4>1, <4>3, <5>1, Numbers, SMT
      <4>. QED  BY <4>2, <4>3
    <3>. QED  BY <2>1, <3>2
  <2>3. d.receipt <= Len(turns')
    BY <1>0, <1>10, <2>1 DEF Bounds
  <2>. QED  BY <2>1, <2>2, <2>3 DEF Bounds
<1>11. ASSUME NEW d, d = NoCheckpoint PROVE Bounds(d)'
  BY <1>0, <1>11, NoCheckpointBounds, NoCheckpointFields DEF Bounds
<1>12. \A v \in Workers : Holds(v)' <=> Holds(v)
  BY <1>3, <1>7 DEF Holds, Aged
<1>13. TokenInv'
  <2>1. \A v \in Workers : local'[v].token = local[v].token
    BY <1>3 DEF Aged
  <2>. QED  BY <1>7, <2>1 DEF IInv, TokenInv
<1>14. SavedInv'
  <2>1. Bounds(saved)'
    <3>1. CASE saved.state = "none"
      BY <1>0, <1>6, <1>11, <3>1 DEF SavedInv
    <3>2. CASE saved.state # "none"
      BY <1>0, <1>6, <1>10, <3>2 DEF SavedInv, TypeOK
    <3>. QED  BY <3>1, <3>2
  <2>2. /\ saved'.state = saved.state /\ saved'.thread = saved.thread
        /\ saved'.receipt = saved.receipt
    BY <1>6 DEF Same
  <2>3. threads' = 0 => age' = 0
    BY <1>0, <1>5 DEF SavedInv
  <2>4. saved'.state = "none" => threads' = 0 /\ saved' = NoCheckpoint
    BY <1>0, <1>6, <2>2 DEF SavedInv
  <2>5. saved'.state \in {"none", "opened"} => turns' = << >>
    BY <1>0, <2>2 DEF SavedInv
  <2>6. \A i \in DOMAIN turns' : turns'[i].thread = saved'.thread /\ saved'.thread # 0
    BY <1>0, <2>2 DEF SavedInv
  <2>7. \A i \in DOMAIN turns' : i < Len(turns') => turns'[i].status # "running"
    BY <1>0 DEF SavedInv
  <2>8. saved'.state \in HasTurn =>
          saved'.receipt = Len(turns') /\ saved'.receipt # 0 /\ saved'.thread # 0
    BY <1>0, <2>2 DEF SavedInv
  <2>9. /\ saved'.state = "paused" => turns'[Len(turns')].status # "running"
        /\ saved'.state = "completed" => turns'[Len(turns')].status = "done"
    BY <1>0, <2>2 DEF SavedInv
  <2>. QED  BY <2>1, <2>3, <2>4, <2>5, <2>6, <2>7, <2>8, <2>9 DEF SavedInv
<1>15. WorkerInv'
  <2>1. ASSUME NEW k \in Local, WorkerOK(k), NEW m, m = Ticked(k) PROVE WorkerOK(m)'
    <3>1. m \in Local /\ Aged(m, k) /\ Shape(k)
      BY <1>2, <2>1 DEF WorkerOK
    <3>2. Shape(m)
      BY <3>1, AgedShape
    <3>3. k.mine \in Checkpoint /\ k.next \in Checkpoint /\ Bounds(k.mine) /\ Bounds(k.next)
      BY <2>1, LocalFields DEF WorkerOK
    <3>4. Bounds(m.mine)'
      <4>1. CASE k.at = "idle"
        BY <1>11, <3>1, <3>2, <4>1, IdleFields DEF Shape, Aged
      <4>2. CASE k.at # "idle"
        BY <1>2, <1>10, <2>1, <3>3, <4>2
      <4>. QED  BY <4>1, <4>2
    <3>5. Bounds(m.next)'
      <4>1. CASE k.at = "saving"
        BY <1>2, <1>10, <2>1, <3>3, <4>1
      <4>2. CASE k.at # "saving"
        BY <1>11, <3>1, <3>2, <4>2 DEF Shape, Aged
      <4>. QED  BY <4>1, <4>2
    <3>6. m.turn <= Len(turns')
      BY <1>0, <2>1, <3>1 DEF WorkerOK, Aged
    <3>. QED  BY <3>2, <3>4, <3>5, <3>6 DEF WorkerOK
  <2>2. ASSUME NEW v \in Workers
        PROVE  WorkerOK(local[v])' /\ (local'[v].at = "opening" => saved'.state # "none")
    <3>1. WorkerOK(local[v]) /\ local[v] \in Local /\ (local[v].at = "opening" => saved.state # "none")
      BY <1>1 DEF IInv, WorkerInv
    <3>2. WorkerOK(local[v])'
      BY <1>3, <2>1, <3>1
    <3>. QED  BY <1>3, <1>6, <3>1, <3>2 DEF Aged, Same
  <2>. QED  BY <2>2 DEF WorkerInv
<1>16. HolderInv'
  <2>1. ASSUME NEW m, NEW d PROVE HolderOK(m, d)' <=> HolderOK(m, d)
    BY <1>0, SMT DEF HolderOK
  <2>2. ASSUME NEW v \in Workers, Holds(v)' PROVE HolderOK(local'[v], saved')
    <3>1. HolderOK(local[v], saved)
      BY <1>12, <2>2 DEF IInv, HolderInv
    <3>. QED  BY <1>3, <1>6, <3>1, AgedHolder
  <2>3. ASSUME NEW v \in Workers, Holds(v)' PROVE HolderOK(local[v], saved)'
    BY <2>1, <2>2, <2>3
  <2>. QED  BY <2>3 DEF HolderInv
<1>17. SenderInv'
  <2>1. \A v \in Workers : /\ local'[v].at = local[v].at
                           /\ local'[v].mine.thread = local[v].mine.thread
                           /\ Harmless(local[v]) => Harmless(local'[v])
    BY <1>3 DEF Aged, Same, Harmless
  <2>2. saved'.state = saved.state /\ saved'.thread = saved.thread
    BY <1>6 DEF Same
  <2>. QED  BY <1>0, <1>12, <2>1, <2>2 DEF IInv, SenderInv
<1>. QED  BY <1>9, <1>13, <1>14, <1>15, <1>16, <1>17 DEF IInv

----------------------------------------------------------------------------
\* A turn starts, and ends.

LEMMA SendInv ==
    ASSUME IInv, NEW w \in Workers, Send(w)
    PROVE  IInv'
<1>. DEFINE k == local[w]
            x == [thread |-> k.mine.thread, status |-> "running"]
            l == [k EXCEPT !.at = "sent", !.turn = Len(turns')]
            T == [thread : 1 .. MaxThreads, status : {"running", "done", "stopped"}]
<1>1. /\ k.at = "sending" /\ Len(turns) < MaxTurns /\ turns' = Append(turns, x) /\ Set(w, l)
      /\ UNCHANGED <<run, saved, threads, age, faults>>
  BY DEF Send, InTime
<1>2. /\ k \in Local /\ TypeOK /\ Shape(k) /\ k.token # NoToken /\ MineOK(k.mine)
      /\ k.mine \in Checkpoint /\ (Holds(w) => HolderOK(k, saved))
  BY <1>1, WorkerFacts
<1>3. k.mine.state = "sending" /\ k.mine.thread # 0 /\ ~k.late /\ k.next = NoCheckpoint
  BY <1>1, <1>2 DEF Shape
<1>4. /\ saved.state \in {"sending", "cancelled", "failed"} /\ saved.thread = k.mine.thread
      /\ \A i \in DOMAIN turns : turns[i].status # "running"
      /\ \A v \in Workers : v # w => local[v].at # "sending" /\ (Holds(v) => Harmless(local[v]))
  BY <1>1 DEF IInv, SenderInv
<1>5. x \in T
  <2>1. k.mine.thread \in 1 .. MaxThreads
    BY <1>2, <1>3, CheckpointFields, Numbers, SMT
  <2>. QED  BY <2>1
<1>6. x.thread = saved.thread
  BY <1>4
<1>7. turns \in Seq(T)
  BY <1>2 DEF TypeOK
<1>. HIDE DEF T, x
<1>8. /\ turns' \in Seq(T) /\ Len(turns) \in Nat /\ Len(turns') = Len(turns) + 1
      /\ DOMAIN turns = 1 .. Len(turns) /\ DOMAIN turns' = 1 .. Len(turns) + 1
      /\ \A i \in DOMAIN turns : turns'[i] = turns[i]
      /\ turns'[Len(turns) + 1] = x
  BY <1>1, <1>5, <1>7, SMT
<1>9. \A i \in DOMAIN turns' : i \in DOMAIN turns \/ i = Len(turns')
  BY <1>8, SMT
<1>10. \A i \in DOMAIN turns' : i < Len(turns') => i \in DOMAIN turns
  BY <1>8, SMT
<1>11. Len(turns') \in 0 .. MaxTurns /\ Len(turns') # 0 /\ Len(turns') <= Len(turns')
  BY <1>1, <1>8, Numbers, SMT
<1>12. /\ l \in Local /\ l.at = "sent" /\ l.turn = Len(turns') /\ l.token = k.token
       /\ l.mine = k.mine /\ l.next = k.next /\ l.late = k.late
  BY <1>2, <1>11 DEF Local, Stages
<1>. HIDE DEF l
<1>13. local \in [Workers -> Local] /\ local'[w] = l /\ \A v \in Workers : v # w => local'[v] = local[v]
  BY <1>1, <1>2 DEF TypeOK, Local, Set
<1>14. TypeOK'
  <2>1. local' \in [Workers -> Local]
    BY <1>1, <1>12, <1>13 DEF Set
  <2>. QED  BY <1>1, <1>2, <1>8, <2>1 DEF TypeOK, Local, T
<1>15. \A v \in Workers : local'[v].token = local[v].token /\ (Holds(v)' <=> Holds(v))
  <2>1. \A v \in Workers : local'[v].token = local[v].token
    BY <1>12, <1>13
  <2>. QED  BY <1>1, <2>1 DEF Holds
<1>16. TokenInv'
  BY <1>1, <1>15 DEF IInv, TokenInv
<1>17. ASSUME NEW d \in Checkpoint, Bounds(d) PROVE Bounds(d)'
  <2>1. d.receipt \in Nat /\ d.receipt <= Len(turns)
    BY <1>17, CheckpointFields DEF Bounds
  <2>2. d.receipt <= Len(turns')
    BY <1>8, <2>1, SMT
  <2>. QED  BY <1>1, <1>17, <2>2 DEF Bounds
<1>18. SavedInv'
  <2>1. saved \in Checkpoint /\ SavedInv
    BY <1>2 DEF IInv, TypeOK
  <2>2. \A i \in DOMAIN turns' : turns'[i].thread = saved.thread /\ saved.thread # 0
    <3>1. ASSUME NEW i \in DOMAIN turns' PROVE turns'[i].thread = saved.thread
      <4>1. CASE i \in DOMAIN turns
        BY <1>8, <2>1, <4>1 DEF SavedInv
      <4>2. CASE i = Len(turns')
        BY <1>6, <1>8, <4>2
      <4>. QED  BY <1>9, <4>1, <4>2
    <3>. QED  BY <1>3, <1>4, <3>1
  <2>3. \A i \in DOMAIN turns' : i < Len(turns') => turns'[i].status # "running"
    BY <1>4, <1>8, <1>10
  <2>4. Bounds(saved)'
    BY <1>1, <1>17, <2>1 DEF SavedInv
  <2>5. saved.state \notin HasTurn \cup {"none", "opened", "paused", "completed"}
    BY <1>4 DEF HasTurn
  <2>. QED  BY <1>1, <2>1, <2>2, <2>3, <2>4, <2>5 DEF SavedInv
<1>19. WorkerInv'
  <2>1. ASSUME NEW m \in Local, WorkerOK(m) PROVE WorkerOK(m)'
    <3>1. m.turn \in Nat /\ m.turn <= Len(turns)
      BY <2>1, LocalFields, Numbers, SMT DEF WorkerOK
    <3>2. m.turn <= Len(turns')
      BY <1>8, <3>1, SMT
    <3>3. Bounds(m.mine)' /\ Bounds(m.next)'
      BY <1>17, <2>1, LocalFields DEF WorkerOK
    <3>. QED  BY <2>1, <3>2, <3>3 DEF WorkerOK
  <2>2. ASSUME NEW m, m = l PROVE WorkerOK(m)'
    <3>1. Shape(m)
      BY <1>2, <1>3, <1>11, <1>12, <2>2, NoCheckpointFields DEF Shape, HasTurn
    <3>2. m.mine \in Checkpoint /\ m.next \in Checkpoint /\ Bounds(m.mine) /\ Bounds(m.next)
      BY <1>12, <2>2, WorkerFacts DEF MineOK
    <3>3. Bounds(m.mine)' /\ Bounds(m.next)'
      BY <1>17, <3>2
    <3>4. m.turn <= Len(turns')
      BY <1>11, <1>12, <2>2
    <3>. QED  BY <3>1, <3>3, <3>4 DEF WorkerOK
  <2>3. ASSUME NEW v \in Workers
        PROVE  WorkerOK(local[v])' /\ (local'[v].at = "opening" => saved'.state # "none")
    <3>1. WorkerOK(local[v]) /\ local[v] \in Local /\ (local[v].at = "opening" => saved.state # "none")
      BY <1>13 DEF IInv, WorkerInv
    <3>2. CASE v # w
      BY <1>1, <1>13, <2>1, <3>1, <3>2
    <3>3. CASE v = w
      BY <1>12, <1>13, <2>2, <3>3
    <3>. QED  BY <3>2, <3>3
  <2>. QED  BY <2>3 DEF WorkerInv
<1>20. HolderInv'
  <2>1. ASSUME NEW m, HolderOK(m, saved), Harmless(m), NEW d, d = saved PROVE HolderOK(m, d)'
    BY <2>1, SMT DEF HolderOK, Harmless, Working, HasTurn
  <2>2. ASSUME NEW m, m = l, NEW d, d = saved PROVE HolderOK(m, d)'
    <3>1. m.mine.thread = d.thread /\ m.at = "sent" /\ m.turn = Len(turns')
      BY <1>4, <1>12, <2>2
    <3>. QED  BY <3>1 DEF HolderOK
  <2>3. ASSUME NEW v \in Workers, Holds(v)' PROVE HolderOK(local[v], saved)'
    <3>1. Holds(v)
      BY <1>15, <2>3
    <3>2. CASE v # w
      <4>1. HolderOK(local[v], saved) /\ Harmless(local[v]) /\ local'[v] = local[v]
        BY <1>4, <1>13, <3>1, <3>2 DEF IInv, HolderInv
      <4>. QED  BY <1>1, <2>1, <4>1
    <3>3. CASE v = w
      BY <1>1, <1>13, <2>2, <3>3
    <3>. QED  BY <3>2, <3>3
  <2>. QED  BY <2>3 DEF HolderInv
<1>21. SenderInv'
  <2>1. \A v \in Workers : local'[v].at # "sending"
    BY <1>4, <1>12, <1>13
  <2>. QED  BY <2>1 DEF SenderInv
<1>. QED  BY <1>14, <1>16, <1>18, <1>19, <1>20, <1>21 DEF IInv

\* A running turn ends or is stopped.
LEMMA TurnInv ==
    ASSUME IInv, TurnEnds \/ TurnStops
    PROVE  IInv'
<1>. DEFINE T == [thread : 1 .. MaxThreads, status : {"running", "done", "stopped"}]
<1>0. TypeOK
  BY DEF IInv
<1>1. PICK i \in DOMAIN turns : \E s \in {"done", "stopped"} :
         /\ turns[i].status = "running" /\ turns' = [turns EXCEPT ![i].status = s]
         /\ UNCHANGED <<run, saved, local, threads, age, faults>>
  <2>1. CASE TurnEnds
    BY <2>1 DEF TurnEnds
  <2>2. CASE TurnStops
    <3>1. PICK w \in Workers :
            /\ local[w].mine.receipt # 0 /\ Status(w) = "running"
            /\ turns' = [turns EXCEPT ![local[w].mine.receipt].status = "stopped"]
            /\ UNCHANGED <<run, saved, local, threads, age, faults>>
      BY <2>2 DEF TurnStops
    <3>2. local[w].mine.receipt \in DOMAIN turns
      BY <1>0, <3>1, WorkerFacts, ReceiptIsTurn
    <3>. QED  BY <3>1, <3>2 DEF Status
  <2>. QED  BY <2>1, <2>2
<1>2. PICK s \in {"done", "stopped"} :
         /\ turns[i].status = "running" /\ turns' = [turns EXCEPT ![i].status = s]
         /\ UNCHANGED <<run, saved, local, threads, age, faults>>
  BY <1>1
<1>3. turns \in Seq(T) /\ \A j \in DOMAIN turns : turns[j] \in T
  BY <1>0, TurnsTyped DEF TypeOK
<1>4. [turns[i] EXCEPT !.status = s] \in T
  BY <1>3
<1>5. /\ turns'[i].status = s /\ turns'[i].thread = turns[i].thread
      /\ \A j \in DOMAIN turns : j # i => turns'[j] = turns[j]
  BY <1>2, <1>3
<1>6. turns' \in Seq(T) /\ Len(turns') = Len(turns) /\ DOMAIN turns' = DOMAIN turns
  <2>. DEFINE y == [turns[i] EXCEPT !.status = s]
  <2>1. turns' = [turns EXCEPT ![i] = y] /\ y \in T
    BY <1>2, <1>4
  <2>. HIDE DEF y, T
  <2>. QED  BY <1>3, <2>1, SMT
<1>7. TypeOK'
  BY <1>0, <1>2, <1>6 DEF TypeOK
<1>8. \A j \in DOMAIN turns :
         /\ turns'[j].thread = turns[j].thread
         /\ turns[j].status # "running" => turns'[j].status = turns[j].status
         /\ turns'[j].status = "running" => turns[j].status = "running"
  BY <1>2, <1>5
<1>9. Len(turns) # 0 => Len(turns) \in DOMAIN turns
  BY <1>0, TurnsTyped, SMT
<1>10. \A d : Bounds(d)' <=> Bounds(d)
  BY <1>2, <1>6 DEF Bounds
<1>11. TokenInv'
  BY <1>2 DEF IInv, TokenInv
<1>12. SavedInv'
  <2>1. SavedInv
    BY DEF IInv
  <2>2. Bounds(saved)'
    BY <1>2, <1>10, <2>1 DEF SavedInv
  <2>3. saved.state \in {"none", "opened"} => turns' = << >>
    <3>1. turns # << >>
      BY <1>2, SMT
    <3>. QED  BY <2>1, <3>1 DEF SavedInv
  <2>4. saved.state \in HasTurn => saved.receipt = Len(turns') /\ Len(turns) \in DOMAIN turns
    BY <1>6, <1>9, <2>1 DEF SavedInv
  <2>5. saved.state = "paused" => turns'[Len(turns')].status # "running"
    BY <1>6, <1>8, <2>1, <2>4 DEF SavedInv, HasTurn
  <2>6. ASSUME saved.state = "completed" PROVE turns'[Len(turns')].status = "done"
    <3>1. turns[Len(turns)].status = "done" /\ Len(turns) \in DOMAIN turns
      BY <2>1, <2>4, <2>6 DEF SavedInv, HasTurn
    <3>2. turns'[Len(turns)].status = "done"
      BY <1>8, <3>1
    <3>. QED  BY <1>6, <3>2
  <2>7. \A j \in DOMAIN turns' : turns'[j].thread = saved.thread /\ saved.thread # 0
    BY <1>6, <1>8, <2>1 DEF SavedInv
  <2>8. \A j \in DOMAIN turns' : j < Len(turns') => turns'[j].status # "running"
    BY <1>6, <1>8, <2>1 DEF SavedInv
  <2>. QED  BY <1>2, <2>1, <2>2, <2>3, <2>4, <2>5, <2>6, <2>7, <2>8 DEF SavedInv
<1>13. WorkerInv'
  <2>1. \A m : WorkerOK(m)' <=> WorkerOK(m)
    BY <1>6, <1>10 DEF WorkerOK
  <2>. QED  BY <1>2, <2>1 DEF IInv, WorkerInv
<1>14. HolderInv'
  <2>1. ASSUME NEW v \in Workers, Holds(v)' PROVE HolderOK(local[v], saved)'
    <3>1. Holds(v)
      BY <1>2, <2>1 DEF Holds
    <3>2. HolderOK(local[v], saved) /\ local[v] \in Local /\ Shape(local[v])
      BY <3>1, WorkerFacts
    <3>3. local[v].at = "saving" /\ local[v].next.state \in HasTurn => Len(turns) \in DOMAIN turns
      BY <1>9, <3>2 DEF HolderOK, Shape
    <3>4. local[v].at = "saving" /\ local[v].next.state = "completed" =>
             turns'[Len(turns)].status = "done"
      BY <1>8, <3>2, <3>3 DEF HolderOK, HasTurn
    <3>5. local[v].at = "saving" /\ local[v].next.state = "paused" =>
             turns'[Len(turns)].status # "running"
      BY <1>8, <3>2, <3>3 DEF HolderOK, HasTurn
    <3>. QED  BY <1>2, <1>6, <3>2, <3>4, <3>5, SMT DEF HolderOK
  <2>. QED  BY <1>2, <2>1 DEF HolderInv
<1>15. SenderInv'
  <2>1. \A v \in Workers : Holds(v)' <=> Holds(v)
    BY <1>2 DEF Holds
  <2>. QED  BY <1>2, <1>6, <1>8, <2>1 DEF IInv, SenderInv
<1>. QED  BY <1>7, <1>11, <1>12, <1>13, <1>14, <1>15 DEF IInv

----------------------------------------------------------------------------
\* The lease is taken or given back.

LEMMA LeaseInv ==
    ASSUME IInv, NEW w \in Workers, NEW l \in Local, Set(w, l),
           UNCHANGED <<saved, threads, turns, age, faults>>,
           run' \in [status : {"absent", "running", "completed", "failed"},
                     token : Tokens, left : 0 .. StaleSeconds],
           TokenInv', WorkerOK(l), l.at \notin {"opening", "sending"},
           \A v \in Workers : Holds(v)' => v = w /\ HolderOK(l, saved) /\ Harmless(l)
    PROVE  IInv'
<1>1. local \in [Workers -> Local] /\ local'[w] = l /\ \A v \in Workers : v # w => local'[v] = local[v]
  BY DEF IInv, TypeOK, Local, Set
<1>2. local' \in [Workers -> Local]
  BY <1>1 DEF Set
<1>3. TypeOK'
  BY <1>2 DEF IInv, TypeOK, Local
<1>4. \A d : Bounds(d)' <=> Bounds(d)
  BY DEF Bounds
<1>5. SavedInv'
  BY <1>4 DEF IInv, SavedInv
<1>6. WorkerInv'
  <2>1. \A m : WorkerOK(m)' <=> WorkerOK(m)
    BY <1>4 DEF WorkerOK
  <2>. QED  BY <1>1, <2>1 DEF IInv, WorkerInv
<1>7. HolderInv'
  <2>1. \A m, d : HolderOK(m, d)' <=> HolderOK(m, d)
    BY SMT DEF HolderOK
  <2>2. ASSUME NEW v \in Workers, Holds(v)' PROVE HolderOK(local'[v], saved)
    BY <1>1, <2>2
  <2>. QED  BY <2>1, <2>2 DEF HolderInv
<1>8. SenderInv'
  <2>1. SUFFICES ASSUME NEW v \in Workers, local'[v].at = "sending"
        PROVE  /\ saved.state \in {"sending", "cancelled", "failed"}
               /\ saved.thread = local'[v].mine.thread
               /\ \A i \in DOMAIN turns : turns[i].status # "running"
               /\ \A u \in Workers : u # v =>
                    local'[u].at # "sending" /\ (Holds(u)' => Harmless(local'[u]))
    BY DEF SenderInv
  <2>2. v # w /\ local'[v] = local[v] /\ local[v].at = "sending"
    BY <1>1, <2>1
  <2>3. ASSUME NEW u \in Workers, u # v
        PROVE  local'[u].at # "sending" /\ (Holds(u)' => Harmless(local'[u]))
    BY <1>1, <2>2, <2>3 DEF IInv, SenderInv
  <2>. QED  BY <2>2, <2>3 DEF IInv, SenderInv
<1>. QED  BY <1>3, <1>5, <1>6, <1>7, <1>8 DEF IInv

LEMMA ClaimInv ==
    ASSUME IInv, NEW w \in Workers, Claim(w)
    PROVE  IInv'
<1>. DEFINE t == Token(w)
            l == [Idle EXCEPT !.at = "loading", !.token = t]
<1>1. /\ local[w].at = "idle" /\ Set(w, l) /\ UNCHANGED <<saved, threads, turns, age, faults>>
      /\ run' = [status |-> "running", token |-> t, left |-> StaleSeconds]
      /\ TypeOK
  BY DEF Claim, native, IInv
<1>2. t \in Tokens /\ t # NoToken /\ \A v \in Workers : v # w => local[v].token # t
  BY TokenFacts DEF IInv, TokenInv
<1>. HIDE DEF t
<1>3. /\ l \in Local /\ l.at = "loading" /\ l.token = t /\ l.mine = NoCheckpoint
      /\ l.next = NoCheckpoint /\ l.turn = 0 /\ l.late = FALSE
  BY <1>2, IdleFields DEF Local, Stages
<1>. HIDE DEF l
<1>4. Shape(l)
  BY <1>2, <1>3, NoCheckpointFields DEF Shape, HasTurn
<1>5. WorkerOK(l)
  BY <1>1, <1>3, <1>4, NoCheckpointBounds DEF WorkerOK
<1>6. /\ run' \in [status : {"absent", "running", "completed", "failed"},
                   token : Tokens, left : 0 .. StaleSeconds]
      /\ run'.token = t
  <2>1. StaleSeconds \in 0 .. StaleSeconds
    BY Numbers, SMT
  <2>. QED  BY <1>1, <1>2, <2>1
<1>7. local'[w] = l /\ \A v \in Workers : v # w => local'[v] = local[v]
  BY <1>1 DEF TypeOK, Set
<1>8. TokenInv'
  <2>1. \A v \in Workers : local'[v].token \in {NoToken, Token(v)}
    BY <1>3, <1>7 DEF IInv, TokenInv, t
  <2>. QED  BY <1>2, <1>6, <2>1 DEF TokenInv
<1>9. \A v \in Workers : Holds(v)' => v = w
  BY <1>2, <1>6, <1>7 DEF Holds
<1>10. HolderOK(l, saved) /\ Harmless(l)
  BY <1>3 DEF HolderOK, Working, Harmless
<1>. QED  BY <1>1, <1>3, <1>5, <1>6, <1>8, <1>9, <1>10, LeaseInv

----------------------------------------------------------------------------
\* Two workers never hold the lease.

LEMMA OneHolder ==
    ASSUME IInv, NEW v \in Workers, NEW w \in Workers, Holds(v), Holds(w)
    PROVE  v = w /\ local[w].at # "idle"
<1>1. local[v].token = run.token /\ local[w].token = run.token /\ run.token # NoToken
  BY DEF IInv, TokenInv, Holds
<1>2. v = w
  <2>1. local[v].token = Token(v) /\ local[w].token = Token(w)
    BY <1>1 DEF IInv, TokenInv
  <2>. QED  BY <1>1, <2>1, TokenFacts
<1>3. ASSUME local[w].at = "idle" PROVE FALSE
  BY <1>1, <1>3, IdleFields DEF IInv, WorkerInv, WorkerOK, Shape
<1>. QED  BY <1>2, <1>3

\* Another worker is about to start a turn.
Contended(w) == \E v \in Workers : v # w /\ local[v].at = "sending"

LEMMA ContendedMeans ==
    ASSUME IInv, NEW w \in Workers, Holds(w), Contended(w)
    PROVE  Harmless(local[w]) /\ saved.state \in {"sending", "cancelled", "failed"}
BY DEF IInv, SenderInv, Contended

\* A worker goes on, or gives up, without writing the checkpoint.
LEMMA MoveInv ==
    ASSUME IInv, NEW w \in Workers, NEW l \in Local,
           Set(w, l), UNCHANGED <<run, saved, turns, age>>,
           threads' \in 0 .. MaxThreads, threads' = threads \/ saved.state # "none",
           threads' = 0 => threads = 0,
           faults' \in 0 .. MaxFaults,
           WorkerOK(l), l.at = "opening" => saved.state # "none", l.at # "sending",
           \/ l.at = "idle"
           \/ /\ l.token = local[w].token
              /\ Holds(w) => HolderOK(l, saved) /\ (Contended(w) => Harmless(l))
    PROVE  IInv'
<1>1. local \in [Workers -> Local] /\ local'[w] = l /\ \A v \in Workers : v # w => local'[v] = local[v]
  BY DEF IInv, TypeOK, Local, Set
<1>2. local' \in [Workers -> Local]
  BY <1>1 DEF Set
<1>3. TypeOK'
  BY <1>2 DEF IInv, TypeOK, Local
<1>4. l.at = "idle" => l = Idle /\ l.token = NoToken
  BY IdleFields DEF WorkerOK, Shape
<1>5. TokenInv'
  <2>1. \A v \in Workers : local'[v].token = local[v].token \/ local'[v].token = NoToken
    BY <1>1, <1>4
  <2>. QED  BY <2>1 DEF IInv, TokenInv
<1>6. \A v \in Workers : Holds(v)' => Holds(v) /\ (v = w => l.at # "idle")
  <2>1. ASSUME NEW v \in Workers, Holds(v)' PROVE Holds(v) /\ (v = w => l.at # "idle")
    <3>1. run.status = "running" /\ run.token = local'[v].token /\ run.token # NoToken
      BY <2>1 DEF Holds, IInv, TokenInv
    <3>2. CASE v = w
      <4>1. l.token # NoToken
        BY <1>1, <3>1, <3>2
      <4>2. l.at # "idle" /\ l.token = local[w].token
        BY <1>4, <4>1
      <4>. QED  BY <1>1, <3>1, <3>2, <4>2 DEF Holds
    <3>3. CASE v # w
      BY <1>1, <3>1, <3>3 DEF Holds
    <3>. QED  BY <3>2, <3>3
  <2>. QED  BY <2>1
<1>7. \A d : Bounds(d)' <=> Bounds(d)
  BY DEF Bounds
<1>8. SavedInv'
  BY <1>7 DEF IInv, SavedInv
<1>9. WorkerInv'
  <2>1. \A m : WorkerOK(m)' <=> WorkerOK(m)
    BY <1>7 DEF WorkerOK
  <2>. QED  BY <1>1, <2>1 DEF IInv, WorkerInv
<1>10. HolderInv'
  <2>1. \A m, d : HolderOK(m, d)' <=> HolderOK(m, d)
    BY SMT DEF HolderOK
  <2>2. ASSUME NEW v \in Workers, Holds(v)' PROVE HolderOK(local'[v], saved)
    BY <1>1, <1>6, <2>2 DEF IInv, HolderInv
  <2>. QED  BY <2>1, <2>2 DEF HolderInv
<1>11. SenderInv'
  <2>1. SUFFICES ASSUME NEW v \in Workers, local'[v].at = "sending"
        PROVE  /\ saved.state \in {"sending", "cancelled", "failed"}
               /\ saved.thread = local'[v].mine.thread
               /\ \A i \in DOMAIN turns : turns[i].status # "running"
               /\ \A u \in Workers : u # v =>
                    local'[u].at # "sending" /\ (Holds(u)' => Harmless(local'[u]))
    BY DEF SenderInv
  <2>2. v # w /\ local'[v] = local[v] /\ local[v].at = "sending"
    BY <1>1, <2>1
  <2>3. ASSUME NEW u \in Workers, u # v, Holds(u)' PROVE Harmless(local'[u])
    <3>1. CASE u = w
      BY <1>1, <1>6, <2>2, <2>3, <3>1 DEF Contended
    <3>2. CASE u # w
      BY <1>1, <1>6, <2>2, <2>3, <3>2 DEF IInv, SenderInv
    <3>. QED  BY <3>1, <3>2
  <2>4. ASSUME NEW u \in Workers, u # v PROVE local'[u].at # "sending"
    BY <1>1, <2>2, <2>4 DEF IInv, SenderInv
  <2>. QED  BY <2>2, <2>3, <2>4 DEF IInv, SenderInv
<1>. QED  BY <1>3, <1>5, <1>8, <1>9, <1>10, <1>11 DEF IInv

\* The holder of the lease writes the checkpoint it was saving.
LEMMA WriteInv ==
    ASSUME IInv, NEW w \in Workers, local[w].at = "saving", Holds(w),
           NEW c, c = local[w].next, Written(c),
           NEW l \in Local, Set(w, l), UNCHANGED <<threads, turns, age>>,
           faults' \in 0 .. MaxFaults,
           WorkerOK(l), l.at = "sending" => c.state = "sending" /\ l.mine = c,
           \/ l.at = "idle"
           \/ /\ l.token = local[w].token
              /\ HolderOK(l, c) /\ (Contended(w) => Harmless(l))
    PROVE  IInv'
<1>. DEFINE k == local[w]
<1>1. local \in [Workers -> Local] /\ local'[w] = l /\ \A v \in Workers : v # w => local'[v] = local[v]
  BY DEF IInv, TypeOK, Local, Set
<1>2. local' \in [Workers -> Local] /\ k \in Local /\ c \in Checkpoint
  <2>1. local' \in [Workers -> Local] /\ k \in Local
    BY <1>1 DEF Set
  <2>. QED  BY <2>1, LocalFields
<1>3. /\ saved' = c /\ run' \in [status : {"absent", "running", "completed", "failed"},
                                 token : Tokens, left : 0 .. StaleSeconds]
      /\ run'.status = run.status /\ run'.token = run.token
  <2>1. StaleSeconds \in 0 .. StaleSeconds
    BY Numbers, SMT
  <2>. QED  BY <2>1 DEF Written, IInv, TypeOK
<1>4. TypeOK'
  BY <1>2, <1>3 DEF IInv, TypeOK, Local
<1>5. SavingShape(k) /\ HolderOK(k, saved) /\ Bounds(c)
      /\ (c.state \in HasTurn => c.receipt # 0 /\ c.thread # 0)
  BY DEF IInv, WorkerInv, WorkerOK, Shape, HolderInv
<1>6. c.state # "none"
  BY <1>5 DEF SavingShape
<1>7. saved.thread = 0 \/ c.thread = saved.thread
  BY <1>5 DEF HolderOK
<1>8. l.at = "idle" => l = Idle /\ l.token = NoToken
  BY IdleFields DEF WorkerOK, Shape
<1>9. TokenInv'
  <2>1. \A v \in Workers : local'[v].token = local[v].token \/ local'[v].token = NoToken
    BY <1>1, <1>8
  <2>. QED  BY <1>3, <2>1 DEF IInv, TokenInv
<1>10. \A v \in Workers : Holds(v)' => v = w /\ l.at # "idle"
  <2>1. SUFFICES ASSUME NEW v \in Workers, Holds(v)' PROVE v = w /\ l.at # "idle"
    OBVIOUS
  <2>2. run.status = "running" /\ run.token = local'[v].token /\ run.token # NoToken
    BY <1>3, <2>1 DEF Holds, IInv, TokenInv
  <2>3. CASE v = w
    BY <1>1, <1>8, <2>2, <2>3
  <2>4. CASE v # w
    <3>1. Holds(v)
      BY <1>1, <2>2, <2>4 DEF Holds
    <3>. QED  BY <2>4, <3>1, OneHolder
  <2>. QED  BY <2>3, <2>4
<1>11. \A d : Bounds(d)' <=> Bounds(d)
  BY DEF Bounds
<1>12. SavedInv'
  <2>1. c.state = "opened" => turns = << >>
    <3>1. ASSUME c.state = "opened" PROVE k.then \in {"opening", "starting"}
      BY <1>5, <3>1 DEF SavingShape
    <3>2. ASSUME c.state = "opened" PROVE saved.state \in {"none", "opened"}
      BY <1>5, <3>1, <3>2 DEF HolderOK
    <3>. QED  BY <3>2 DEF IInv, SavedInv
  <2>2. \A i \in DOMAIN turns : turns[i].thread = c.thread /\ c.thread # 0
    BY <1>7 DEF IInv, SavedInv
  <2>3. c.state \in HasTurn => c.receipt = Len(turns)
    BY <1>5 DEF HolderOK
  <2>4. c.state = "paused" => turns[Len(turns)].status # "running"
    BY <1>5 DEF HolderOK
  <2>5. c.state = "completed" => turns[Len(turns)].status = "done"
    BY <1>5 DEF HolderOK
  <2>. QED
    BY <1>3, <1>5, <1>6, <1>11, <2>1, <2>2, <2>3, <2>4, <2>5 DEF IInv, SavedInv
<1>13. WorkerInv'
  <2>1. \A m : WorkerOK(m)' <=> WorkerOK(m)
    BY <1>11 DEF WorkerOK
  <2>. QED  BY <1>1, <1>3, <1>6, <2>1 DEF IInv, WorkerInv
<1>14. HolderInv'
  <2>1. \A m, d : HolderOK(m, d)' <=> HolderOK(m, d)
    BY SMT DEF HolderOK
  <2>2. ASSUME NEW v \in Workers, Holds(v)' PROVE HolderOK(local'[v], saved')
    BY <1>1, <1>3, <1>10, <2>2
  <2>. QED  BY <2>1, <2>2 DEF HolderInv
<1>15. SenderInv'
  <2>1. SUFFICES ASSUME NEW v \in Workers, local'[v].at = "sending"
        PROVE  /\ c.state \in {"sending", "cancelled", "failed"}
               /\ c.thread = local'[v].mine.thread
               /\ \A i \in DOMAIN turns : turns[i].status # "running"
               /\ \A u \in Workers : u # v =>
                    local'[u].at # "sending" /\ (Holds(u)' => Harmless(local'[u]))
    BY <1>3 DEF SenderInv
  <2>2. CASE v = w
    <3>1. c.state = "sending" /\ local'[v].mine = c
      BY <1>1, <2>1, <2>2
    <3>2. Same(saved, k.mine) /\ k.mine.state \in {"opened", "paused"}
      BY <1>5, <3>1 DEF HolderOK, SavingShape
    <3>3. saved.state \in {"opened", "paused"}
      BY <3>2 DEF Same
    <3>4. \A u \in Workers : local[u].at # "sending"
      BY <3>3 DEF IInv, SenderInv
    <3>5. \A u \in Workers : u # v => local'[u].at # "sending" /\ ~Holds(u)'
      BY <1>1, <1>10, <2>2, <3>4
    <3>6. \A i \in DOMAIN turns : turns[i].status # "running"
      <4>1. CASE saved.state = "opened"
        <5>1. turns = << >>
          BY <4>1 DEF IInv, SavedInv
        <5>. QED  BY <5>1, SMT
      <4>2. CASE saved.state = "paused"
        <5>1. /\ turns[Len(turns)].status # "running"
              /\ \A i \in DOMAIN turns : i < Len(turns) => turns[i].status # "running"
          BY <4>2 DEF IInv, SavedInv
        <5>2. Len(turns) \in Nat /\ DOMAIN turns = 1 .. Len(turns)
          BY SMT DEF IInv, TypeOK
        <5>. QED  BY <5>1, <5>2, SMT
      <4>. QED  BY <3>3, <4>1, <4>2
    <3>. QED  BY <3>1, <3>5, <3>6
  <2>3. CASE v # w
    <3>1. local'[v] = local[v] /\ local[v].at = "sending" /\ Contended(w)
      BY <1>1, <2>1, <2>3 DEF Contended
    <3>2. c.state \in {"cancelled", "failed"}
      BY <3>1, ContendedMeans DEF Harmless
    <3>3. saved.thread = local[v].mine.thread /\ saved.thread # 0
      BY <3>1 DEF IInv, SenderInv, WorkerInv, WorkerOK, Shape
    <3>4. \A i \in DOMAIN turns : turns[i].status # "running"
      BY <3>1 DEF IInv, SenderInv
    <3>5. l.at # "sending"
      BY <3>2
    <3>6. \A u \in Workers : u # v => local'[u].at # "sending"
      BY <1>1, <3>1, <3>5 DEF IInv, SenderInv
    <3>7. \A u \in Workers : Holds(u)' => Harmless(local'[u])
      BY <1>1, <1>10, <3>1
    <3>. QED  BY <1>7, <3>1, <3>2, <3>3, <3>4, <3>6, <3>7
  <2>. QED  BY <2>2, <2>3
<1>. QED  BY <1>4, <1>9, <1>12, <1>13, <1>14, <1>15 DEF IInv

----------------------------------------------------------------------------
\* What an attempt goes on to, and what that means for the worker and for its lease.

\* Awaiting the end of the attempt asks nothing of the checkpoint.
LEMMA AwaitsEnd ==
    ASSUME TypeOK, NEW l \in Local, NEW c \in Checkpoint, NEW s \in {"failing", "answering", "aborting"},
           l.token # NoToken, MineOK(c), l.turn <= Len(turns),
           NEW m, m = Await(l, s, c), NEW d
    PROVE  /\ m \in Local /\ m.at = s /\ m.token = l.token
           /\ WorkerOK(m) /\ HolderOK(m, d)
<1>1. s \in Stages
  BY DEF Stages
<1>2. /\ m \in Local /\ m.at = s /\ m.token = l.token /\ m.mine = c
      /\ m.next = NoCheckpoint /\ m.turn = l.turn
  BY SMT, <1>1, AwaitFields
<1>3. Shape(m)
  BY <1>2, NoCheckpointFields DEF Shape, HasTurn, MineOK
<1>4. WorkerOK(m)
  BY <1>2, <1>3, NoCheckpointBounds DEF WorkerOK, MineOK
<1>5. HolderOK(m, d)
  BY <1>2 DEF HolderOK, Working
<1>. QED  BY <1>2, <1>4, <1>5

\* So does saving a final failure or a cancellation, but for the thread.
LEMMA SavesEnd ==
    ASSUME TypeOK, NEW l \in Local, l.mine.state # "none", NEW s \in {"failed", "cancelled"},
           NEW t \in {"aborting", "failing"},
           l.token # NoToken, Bounds(l.mine), l.turn <= Len(turns),
           l.mine.state \in {"accepted", "pausing", "paused"} =>
               l.mine.receipt # 0 /\ l.mine.thread # 0,
           NEW m, m = Saving(l, As(l.mine, s), t), NEW d
    PROVE  /\ m \in Local /\ m.at = "saving" /\ m.token = l.token /\ m.next.state = s
           /\ WorkerOK(m)
           /\ d.thread = 0 \/ l.mine.thread = d.thread => HolderOK(m, d)
<1>. DEFINE c == l.mine
            n == As(c, s)
<1>1. c \in Checkpoint
  BY LocalFields
<1>2. /\ n \in Checkpoint /\ n.state = s /\ n.thread = c.thread
      /\ n.receipt = c.receipt /\ n.left = c.left
  BY <1>1, AsFields DEF CheckpointState, Final
<1>0. m = Saving(l, n, t) /\ t \in Stages \cup {"starting"}
  BY DEF Stages
<1>. HIDE DEF n
<1>3. /\ m \in Local /\ m.at = "saving" /\ m.token = l.token /\ m.mine = c
      /\ m.next = n /\ m.then = t /\ m.turn = l.turn
  BY SMT, <1>0, <1>2, SavingFields
<1>4. Shape(m)
  BY <1>2, <1>3 DEF Shape, SavingShape, HasTurn
<1>5. Bounds(n)
  BY <1>1, <1>2, BoundsOf
<1>6. WorkerOK(m)
  BY <1>3, <1>4, <1>5 DEF WorkerOK
<1>7. ASSUME d.thread = 0 \/ c.thread = d.thread
      PROVE  HolderOK(m, d)
  BY <1>2, <1>3, <1>7 DEF HolderOK, Working, HasTurn
<1>. QED  BY <1>2, <1>3, <1>6, <1>7

LEMMA SavesNext ==
    ASSUME TypeOK, NEW l \in Local, NEW n \in Checkpoint, NEW t \in Stages \cup {"starting"},
           l.token # NoToken, MineOK(l.mine), l.turn <= Len(turns), Bounds(n),
           n.state \in HasTurn => n.receipt # 0 /\ n.thread # 0,
           NEW m, m = Saving(l, n, t), SavingShape(m)
    PROVE  /\ m \in Local /\ m.at = "saving" /\ m.token = l.token /\ m.mine = l.mine
           /\ m.next = n /\ m.then = t
           /\ WorkerOK(m)
<1>1. /\ m \in Local /\ m.at = "saving" /\ m.token = l.token /\ m.mine = l.mine
      /\ m.next = n /\ m.then = t /\ m.turn = l.turn
  BY SMT, SavingFields
<1>2. Shape(m)
  BY <1>1 DEF Shape, MineOK
<1>. QED  BY <1>1, <1>2 DEF WorkerOK, MineOK

\* What a worker must have to await s.
Ready(l, s, c) ==
    /\ s = "opening" => c.state = "opened" /\ c.thread = 0 /\ ~l.late
    /\ s = "resuming" => c.state \in {"opened", "accepted", "pausing", "paused"}
                         /\ c.thread # 0 /\ ~l.late
    /\ s = "sending" => c.state = "sending" /\ c.thread # 0 /\ ~l.late
    /\ s = "capturing" => c.state = "accepted"
    /\ s = "interrupting" => c.state = "pausing"
    /\ s = "closing" => c.state = "completed"

LEMMA AwaitsNext ==
    ASSUME TypeOK, NEW l \in Local, NEW c \in Checkpoint, l.token # NoToken, MineOK(c),
           l.turn <= Len(turns),
           NEW s \in {"opening", "resuming", "sending", "capturing", "interrupting", "closing",
                      "expired", "answering", "failing", "aborting"},
           Ready(l, s, c),
           NEW m, m = Await(l, s, c)
    PROVE  /\ m \in Local /\ m.at = s /\ m.token = l.token /\ m.mine = c /\ m.next = NoCheckpoint
           /\ WorkerOK(m)
<1>1. s \in Stages /\ s \notin {"idle", "loading", "saving", "sent"}
  BY DEF Stages
<1>2. /\ m \in Local /\ m.at = s /\ m.token = l.token /\ m.mine = c
      /\ m.next = NoCheckpoint /\ m.turn = l.turn /\ m.late = l.late
  BY <1>1, AwaitFields, SMT
<1>3. Shape(m)
  BY <1>1, <1>2, NoCheckpointFields DEF Shape, HasTurn, Ready, MineOK
<1>. QED  BY <1>2, <1>3, NoCheckpointBounds DEF WorkerOK, MineOK

\* Giving the request up: it fails with a copy of the checkpoint, or the final state s is
\* saved first.
GivesUp(m, l, c) ==
    \/ m = Await(l, "failing", c)
    \/ /\ c.state # "none"
       /\ \E s \in {"failed", "cancelled"}, t \in {"aborting", "failing"} :
            m = Saving([l EXCEPT !.mine = c], As(c, s), t)

LEMMA GivesUpOK ==
    ASSUME TypeOK, NEW l \in Local, NEW c \in Checkpoint, l.token # NoToken, MineOK(c),
           l.turn <= Len(turns), NEW m, GivesUp(m, l, c), NEW d
    PROVE  /\ m \in Local /\ m.token = l.token /\ WorkerOK(m) /\ Harmless(m)
           /\ m.at \in {"failing", "saving"}
           /\ c.state = "none" \/ d.thread = 0 \/ c.thread = d.thread => HolderOK(m, d)
<1>1. CASE m = Await(l, "failing", c)
  <2>1. m \in Local /\ m.at = "failing" /\ m.token = l.token /\ WorkerOK(m) /\ HolderOK(m, d)
    BY SMT, <1>1, AwaitsEnd
  <2>. QED  BY <2>1 DEF Harmless
<1>2. ASSUME c.state # "none", NEW s \in {"failed", "cancelled"}, NEW t \in {"aborting", "failing"},
             m = Saving([l EXCEPT !.mine = c], As(c, s), t)
      PROVE  /\ m \in Local /\ m.token = l.token /\ WorkerOK(m) /\ Harmless(m)
             /\ m.at \in {"failing", "saving"}
             /\ c.state = "none" \/ d.thread = 0 \/ c.thread = d.thread => HolderOK(m, d)
  <2>. DEFINE k == [l EXCEPT !.mine = c]
  <2>1. k \in Local /\ k.mine = c /\ k.token = l.token /\ k.turn = l.turn
    BY SMT, MineFields
  <2>2. m = Saving(k, As(k.mine, s), t)
    BY <1>2, <2>1
  <2>. HIDE DEF k
  <2>3. /\ k.mine.state # "none" /\ k.token # NoToken /\ Bounds(k.mine) /\ k.turn <= Len(turns)
        /\ k.mine.state \in {"accepted", "pausing", "paused"} =>
               k.mine.receipt # 0 /\ k.mine.thread # 0
    BY <1>2, <2>1 DEF MineOK
  <2>4. /\ m \in Local /\ m.at = "saving" /\ m.token = k.token /\ m.next.state = s
        /\ WorkerOK(m)
        /\ d.thread = 0 \/ k.mine.thread = d.thread => HolderOK(m, d)
    BY <2>1, <2>2, <2>3, SavesEnd, SMT
  <2>. QED  BY <1>2, <2>1, <2>4 DEF Harmless
<1>. QED  BY <1>1, <1>2 DEF GivesUp

LEMMA Expires ==
    ASSUME NEW l, NEW c
    PROVE  GivesUp(Expired(l, c), l, c)
BY DEF Expired, OverBudget, GivesUp

LEMMA Fails ==
    ASSUME NEW l \in Local
    PROVE  GivesUp(Failed(l, l.mine), l, l.mine)
<1>1. [l EXCEPT !.mine = l.mine] = l
  BY SMT DEF Local
<1>. QED  BY <1>1 DEF Failed, GivesUp

----------------------------------------------------------------------------
\* Awaits that are cut short.

LEMMA InterruptInv ==
    ASSUME IInv, NEW w \in Workers, NEW c, Interrupted(w, c),
           NEW l \in Local, Set(w, l), UNCHANGED <<threads, turns, age>>,
           faults' \in 0 .. MaxFaults,
           WorkerOK(l), l.at \notin {"opening", "sending"},
           \/ l.at = "idle"
           \/ /\ l.token = local[w].token
              /\ Holds(w) => /\ HolderOK(l, saved)
                             /\ local[w].at = "saving" => HolderOK(l, c)
                             /\ Contended(w) => Harmless(l)
    PROVE  IInv'
<1>1. CASE UNCHANGED <<run, saved>>
  <2>1. threads' \in 0 .. MaxThreads /\ threads' = threads
    BY DEF IInv, TypeOK
  <2>. QED  BY <1>1, <2>1, MoveInv
<1>2. CASE local[w].at = "saving" /\ c = local[w].next /\ Holds(w) /\ Written(c)
  BY <1>2, WriteInv
<1>. QED  BY <1>1, <1>2 DEF Interrupted

\* The checkpoint an interrupted worker takes for written.
LEMMA InterruptedCopy ==
    ASSUME IInv, NEW w \in Workers, NEW c, Interrupted(w, c), Attempt(w)
    PROVE  /\ c \in Checkpoint /\ MineOK(c)
           /\ Holds(w) =>
                /\ c.state = "none" \/ saved.thread = 0 \/ c.thread = saved.thread
                /\ c.state \in {"accepted", "pausing"} => c.receipt = Len(turns)
                /\ Contended(w) => c.state = "none"
<1>. DEFINE k == local[w]
<1>1. /\ k \in Local /\ Shape(k) /\ MineOK(k.mine) /\ k.mine \in Checkpoint
      /\ k.next \in Checkpoint /\ Bounds(k.next) /\ (Holds(w) => HolderOK(k, saved))
  BY WorkerFacts
<1>2. k.at \in Attempting /\ k.next.state \notin {"cancelled", "failed"}
  BY DEF Attempt
<1>3. ASSUME Holds(w), Contended(w) PROVE k.at = "loading"
  BY <1>2, <1>3, ContendedMeans DEF Harmless, Attempting
<1>4. CASE k.at = "saving"
  <2>1. c = k.next /\ c.state # "none"
    BY <1>1, <1>4 DEF Interrupted, Shape, SavingShape
  <2>2. MineOK(c)
    BY <1>1, <2>1 DEF MineOK, Shape, HasTurn
  <2>3. ASSUME Holds(w)
        PROVE  /\ saved.thread = 0 \/ c.thread = saved.thread
               /\ c.state \in {"accepted", "pausing"} => c.receipt = Len(turns)
    BY <1>1, <1>4, <2>1, <2>3 DEF HolderOK, HasTurn
  <2>. QED  BY <1>1, <1>3, <1>4, <2>1, <2>2, <2>3
<1>5. CASE k.at # "saving"
  <2>1. c = k.mine
    BY <1>5 DEF Interrupted
  <2>2. k.at = "loading" => c.state = "none"
    BY <1>1, <2>1 DEF Shape
  <2>3. ASSUME Holds(w), k.at # "loading"
        PROVE  /\ saved.thread = 0 \/ c.thread = saved.thread
               /\ c.state \in {"accepted", "pausing"} => c.receipt = Len(turns)
    <3>1. saved.thread = 0 \/ c.thread = saved.thread
      BY <1>1, <1>2, <2>1, <2>3 DEF HolderOK, Working, Attempting
    <3>2. CASE k.at = "resuming"
      <4>1. Same(saved, c)
        BY <1>1, <2>1, <2>3, <3>2 DEF HolderOK
      <4>. QED  BY <3>1, <4>1 DEF Same, IInv, SavedInv, HasTurn
    <3>3. CASE k.at \in {"capturing", "interrupting"}
      BY <1>1, <2>1, <2>3, <3>1, <3>3 DEF HolderOK
    <3>4. CASE k.at \in {"opening", "sending", "sent", "closing"}
      BY <1>1, <2>1, <3>1, <3>4 DEF Shape
    <3>. QED  BY <1>2, <1>5, <2>3, <3>2, <3>3, <3>4 DEF Attempting
  <2>. QED  BY <1>1, <1>3, <2>1, <2>2, <2>3
<1>. QED  BY <1>4, <1>5

LEMMA TimeoutResultOK ==
    ASSUME TypeOK, NEW l \in Local, NEW c \in Checkpoint, l.token # NoToken, MineOK(c),
           l.turn <= Len(turns), NEW m, m = TimeoutResult(l, c), NEW d
    PROVE  /\ m \in Local /\ m.token = l.token /\ WorkerOK(m)
           /\ m.at \in {"failing", "saving", "interrupting"}
           /\ c.state = "none" => Harmless(m)
           /\ (c.state = "none" \/ d.thread = 0 \/ c.thread = d.thread)
              /\ (c.state \in {"accepted", "pausing"} => c.receipt = Len(turns)) =>
                 HolderOK(m, d)
<1>1. CASE c.state = "accepted"
  <2>. DEFINE k == [l EXCEPT !.mine = c]
              n == As(c, "pausing")
  <2>1. k \in Local /\ k.mine = c /\ k.token = l.token /\ k.turn = l.turn
    BY MineFields, SMT
  <2>2. /\ n \in Checkpoint /\ n.state = "pausing" /\ n.thread = c.thread
        /\ n.receipt = c.receipt /\ n.left = c.left
    BY AsFields DEF CheckpointState
  <2>3. m = Saving(k, n, "interrupting") /\ "interrupting" \in Stages \cup {"starting"}
    BY <1>1 DEF TimeoutResult, Stages
  <2>. HIDE DEF k, n
  <2>4. m.at = "saving" /\ m.next = n /\ m.then = "interrupting" /\ m.mine = c
    BY <2>1, <2>2, <2>3, SavingFields, SMT
  <2>5. Bounds(n) /\ SavingShape(m)
    BY <1>1, <2>2, <2>4, BoundsOf DEF MineOK, SavingShape
  <2>6. n.receipt # 0 /\ n.thread # 0
    BY <1>1, <2>2 DEF MineOK
  <2>7. m \in Local /\ m.token = l.token /\ WorkerOK(m)
    <3>1. k.token # NoToken /\ MineOK(k.mine) /\ k.turn <= Len(turns)
      BY <2>1
    <3>. QED  BY <2>1, <2>2, <2>3, <2>5, <2>6, <3>1, SavesNext, SMT
  <2>8. ASSUME d.thread = 0 \/ c.thread = d.thread, c.receipt = Len(turns)
        PROVE  HolderOK(m, d)
    BY <2>2, <2>4, <2>8 DEF HolderOK, Working
  <2>. QED  BY <1>1, <2>4, <2>7, <2>8
<1>2. CASE c.state = "pausing"
  <2>1. m = Await(l, "interrupting", c)
    BY <1>2 DEF TimeoutResult
  <2>2. Ready(l, "interrupting", c)
    BY <1>2 DEF Ready
  <2>3. m \in Local /\ m.at = "interrupting" /\ m.token = l.token /\ m.mine = c /\ WorkerOK(m)
    BY SMT, <2>1, <2>2, AwaitsNext
  <2>4. ASSUME d.thread = 0 \/ c.thread = d.thread, c.receipt = Len(turns)
        PROVE  HolderOK(m, d)
    BY <2>3, <2>4 DEF HolderOK, Working
  <2>. QED  BY <1>2, <2>3, <2>4
<1>3. CASE c.state \notin {"accepted", "pausing"}
  <2>1. GivesUp(m, l, c)
    BY <1>3, Expires DEF TimeoutResult, GivesUp
  <2>. QED  BY <2>1, GivesUpOK
<1>. QED  BY <1>1, <1>2, <1>3

LEMMA TimesOutInv ==
    ASSUME IInv, NEW w \in Workers, TimesOut(w), Fault \/ UNCHANGED faults
    PROVE  IInv'
<1>. DEFINE k == local[w]
            l == [k EXCEPT !.late = TRUE, !.turn = 0]
<1>1. PICK c \in {k.mine, k.next} : Interrupted(w, c) /\ Set(w, TimeoutResult(l, c))
  BY DEF TimesOut
<1>2. Attempt(w) /\ UNCHANGED <<threads, turns, age>>
  BY DEF TimesOut, native
<1>3. k \in Local /\ TypeOK /\ k.token # NoToken /\ (Holds(w) => HolderOK(k, saved))
  BY <1>2, WorkerFacts DEF Attempt, Attempting
<1>4. l \in Local /\ l.token = k.token /\ l.turn = 0
  <2>1. 0 \in 0 .. MaxTurns
    BY Numbers, SMT
  <2>. QED  BY <1>3, <2>1 DEF Local
<1>5. l.token # NoToken /\ l.turn <= Len(turns)
  BY <1>3, <1>4, NoCheckpointBounds
<1>6. /\ c \in Checkpoint /\ MineOK(c)
      /\ Holds(w) => /\ c.state = "none" \/ saved.thread = 0 \/ c.thread = saved.thread
                     /\ c.state \in {"accepted", "pausing"} => c.receipt = Len(turns)
                     /\ Contended(w) => c.state = "none"
  BY <1>1, <1>2, InterruptedCopy
<1>. DEFINE m == TimeoutResult(l, c)
<1>. HIDE DEF l
<1>7. /\ m \in Local /\ m.token = l.token /\ WorkerOK(m)
      /\ m.at \in {"failing", "saving", "interrupting"}
      /\ c.state = "none" => Harmless(m)
      /\ Holds(w) => HolderOK(m, saved) /\ HolderOK(m, c)
  BY <1>3, <1>4, <1>5, <1>6, TimeoutResultOK
<1>8. faults' \in 0 .. MaxFaults
  BY <1>3, FaultTyped
<1>. HIDE DEF m
<1>9. Set(w, m)
  BY <1>1 DEF m
<1>. QED  BY <1>1, <1>2, <1>4, <1>6, <1>7, <1>8, <1>9, InterruptInv

LEMMA CancelInv ==
    ASSUME IInv, NEW w \in Workers, Cancel(w)
    PROVE  IInv'
<1>. DEFINE k == local[w]
            l == [k EXCEPT !.turn = 0]
            M(c) == IF c.state \in {"none", "completed"}
                    THEN Await(l, "failing", c)
                    ELSE Saving([l EXCEPT !.mine = c], As(c, "cancelled"), "aborting")
<1>1. PICK c : Interrupted(w, c) /\ Set(w, M(c))
  BY DEF Cancel
<1>2. Attempt(w) /\ UNCHANGED <<threads, turns, age>> /\ Fault
  BY DEF Cancel, native
<1>3. k \in Local /\ TypeOK /\ k.token # NoToken
  BY <1>2, WorkerFacts DEF Attempt, Attempting
<1>4. l \in Local /\ l.token = k.token /\ l.turn = 0
  <2>1. 0 \in 0 .. MaxTurns
    BY Numbers, SMT
  <2>. QED  BY <1>3, <2>1 DEF Local
<1>5. l.token # NoToken /\ l.turn <= Len(turns)
  BY <1>3, <1>4, NoCheckpointBounds
<1>6. /\ c \in Checkpoint /\ MineOK(c)
      /\ Holds(w) => c.state = "none" \/ saved.thread = 0 \/ c.thread = saved.thread
  BY <1>1, <1>2, InterruptedCopy
<1>. DEFINE m == M(c)
<1>7. GivesUp(m, l, c)
  BY DEF GivesUp
<1>8. Set(w, m)
  BY <1>1
<1>. HIDE DEF l, m
<1>9. /\ m \in Local /\ m.token = l.token /\ WorkerOK(m) /\ Harmless(m)
      /\ m.at \in {"failing", "saving"}
      /\ Holds(w) => HolderOK(m, saved) /\ HolderOK(m, c)
  <2>1. ASSUME NEW d
        PROVE  /\ m \in Local /\ m.token = l.token /\ WorkerOK(m) /\ Harmless(m)
               /\ m.at \in {"failing", "saving"}
               /\ c.state = "none" \/ d.thread = 0 \/ c.thread = d.thread => HolderOK(m, d)
    BY <1>3, <1>4, <1>5, <1>6, <1>7, GivesUpOK, SMT
  <2>2. HolderOK(m, c)
    BY <2>1
  <2>3. Holds(w) => HolderOK(m, saved)
    BY <1>6, <2>1
  <2>. QED  BY <2>1, <2>2, <2>3
<1>10. faults' \in 0 .. MaxFaults
  BY <1>2, <1>3, FaultTyped
<1>. QED  BY <1>1, <1>2, <1>4, <1>8, <1>9, <1>10, InterruptInv

LEMMA CrashInv ==
    ASSUME IInv, NEW w \in Workers, Crash(w)
    PROVE  IInv'
<1>1. PICK c : Interrupted(w, c)
  BY DEF Crash
<1>2. Set(w, Idle) /\ Fault /\ UNCHANGED <<threads, turns, age>> /\ TypeOK
  BY DEF Crash, native, IInv
<1>3. faults' \in 0 .. MaxFaults
  BY <1>2, FaultTyped
<1>. QED  BY <1>1, <1>2, <1>3, IdleOK, InterruptInv

----------------------------------------------------------------------------
\* The steps of an attempt.

\* A turn is started from c by saving "sending" first.
LEMMA StartsFrom ==
    ASSUME TypeOK, NEW l \in Local, NEW c \in Checkpoint, l.token # NoToken, ~l.late,
           l.turn <= Len(turns), MineOK(c), c.state \in {"opened", "paused"}, c.thread # 0,
           NEW m, m = Following(l, c, "starting"), NEW d, Same(d, c)
    PROVE  /\ m \in Local /\ m.at = "saving" /\ m.token = l.token /\ WorkerOK(m)
           /\ HolderOK(m, d)
<1>. DEFINE k == [l EXCEPT !.mine = c]
            n == Sending(c)
<1>1. k \in Local /\ k.mine = c /\ k.token = l.token /\ k.turn = l.turn /\ k.late = l.late
  BY MineFields, SMT
<1>2. /\ n \in Checkpoint /\ n.state = "sending" /\ n.thread = c.thread
      /\ n.receipt = 0 /\ n.left = c.left
  BY SendingFields
<1>3. m = Saving(k, n, "sending") /\ "sending" \in Stages \cup {"starting"}
  BY DEF Following, Stages
<1>. HIDE DEF k, n
<1>4. /\ m \in Local /\ m.at = "saving" /\ m.next = n /\ m.then = "sending" /\ m.mine = c
      /\ m.late = l.late /\ m.token = l.token
  BY <1>1, <1>2, <1>3, SavingFields, SMT
<1>5. SavingShape(m)
  BY <1>2, <1>4 DEF SavingShape
<1>6. Bounds(n)
  <2>1. c.left + age <= Budget
    BY DEF MineOK, Bounds
  <2>2. n.left + age <= Budget
    BY <1>2, <2>1
  <2>3. n.receipt <= Len(turns)
    BY <1>2, NoCheckpointBounds
  <2>. QED  BY <2>2, <2>3 DEF Bounds
<1>7. n.state \notin HasTurn /\ k.token # NoToken /\ MineOK(k.mine) /\ k.turn <= Len(turns)
  BY <1>1, <1>2 DEF HasTurn
<1>8. WorkerOK(m)
  BY <1>1, <1>2, <1>3, <1>5, <1>6, <1>7, SavesNext, SMT
<1>9. HolderOK(m, d)
  BY <1>2, <1>4 DEF HolderOK, Working, HasTurn, Same
<1>. QED  BY <1>4, <1>8, <1>9

\* A step that changes only what the worker has in memory.
Alone == UNCHANGED <<run, saved, threads, turns, age>> /\ (Fault \/ UNCHANGED faults)

LEMMA AloneInv ==
    ASSUME IInv, NEW w \in Workers, Alone, NEW l \in Local, Set(w, l),
           WorkerOK(l), l.at = "opening" => saved.state # "none", l.at # "sending",
           \/ l.at = "idle"
           \/ /\ l.token = local[w].token
              /\ Holds(w) => HolderOK(l, saved) /\ (Contended(w) => Harmless(l))
    PROVE  IInv'
<1>1. TypeOK /\ threads' \in 0 .. MaxThreads /\ threads' = threads
  BY DEF Alone, IInv, TypeOK
<1>2. faults' \in 0 .. MaxFaults
  BY <1>1, FaultTyped DEF Alone
<1>3. UNCHANGED <<run, saved, turns, age>>
  BY DEF Alone
<1>. QED  BY <1>1, <1>2, <1>3, MoveInv

LEMMA GoesIdle ==
    ASSUME IInv, NEW w \in Workers, Alone, Set(w, Idle)
    PROVE  IInv'
BY IdleOK, AloneInv DEF IInv

LEMMA SaveInv ==
    ASSUME IInv, NEW w \in Workers, Save(w)
    PROVE  IInv'
<1>. DEFINE k == local[w]
            c == k.next
            t == k.then
            m == Following(k, c, t)
<1>1. k.at = "saving" /\ UNCHANGED <<threads, turns, age, faults>>
  BY DEF Save, native
<1>2. CASE ~Holds(w)
  <2>1. Set(w, Idle) /\ Alone
    BY <1>1, <1>2 DEF Save, Alone
  <2>. QED  BY <2>1, GoesIdle
<1>3. CASE Holds(w)
  <2>1. Written(c) /\ Set(w, m)
    BY <1>3 DEF Save
  <2>2. /\ k \in Local /\ Shape(k) /\ k.token # NoToken /\ c \in Checkpoint /\ Bounds(c)
        /\ TypeOK /\ k.turn <= Len(turns) /\ HolderOK(k, saved)
    BY <1>1, <1>3, WorkerFacts
  <2>3. SavingShape(k) /\ (c.state \in HasTurn => c.receipt # 0 /\ c.thread # 0)
    BY <1>1, <2>2 DEF Shape
  <2>4. c.state # "none"
    BY <2>3 DEF SavingShape
  <2>5. MineOK(c)
    BY <2>2, <2>3, <2>4 DEF MineOK, HasTurn
  <2>6. Contended(w) => c.state \in {"cancelled", "failed"}
    BY <1>1, <1>3, ContendedMeans DEF Harmless
  <2>7. faults' \in 0 .. MaxFaults
    BY <1>1, <2>2 DEF TypeOK
  <2>8. SUFFICES /\ m \in Local /\ m.token = k.token /\ WorkerOK(m) /\ HolderOK(m, c)
                 /\ m.at = "sending" => c.state = "sending" /\ m.mine = c
                 /\ Contended(w) => Harmless(m)
    BY <1>1, <1>3, <2>1, <2>7, WriteInv
  <2>9. CASE t = "starting"
    <3>1. c.state \in {"opened", "paused"} /\ c.thread # 0 /\ ~k.late
      BY <2>3, <2>9 DEF SavingShape
    <3>2. m = Following(k, c, "starting") /\ Same(c, c)
      BY <2>9 DEF Same
    <3>3. m \in Local /\ m.at = "saving" /\ m.token = k.token /\ WorkerOK(m) /\ HolderOK(m, c)
      BY <2>2, <2>5, <3>1, <3>2, StartsFrom
    <3>. QED  BY <2>6, <3>1, <3>3
  <2>10. CASE t # "starting"
    <3>1. m = Await(k, t, c)
      BY <2>10 DEF Following
    <3>. HIDE DEF m
    <3>2. t \in {"opening", "sending", "capturing", "interrupting", "closing", "expired",
                 "failing", "aborting"}
          /\ Ready(k, t, c)
      BY <2>3, <2>10 DEF SavingShape, Ready
    <3>3. m \in Local /\ m.at = t /\ m.token = k.token /\ m.mine = c /\ WorkerOK(m)
      BY <2>2, <2>5, <3>1, <3>2, AwaitsNext, SMT
    <3>4. t \in {"capturing", "interrupting"} => c.receipt = Len(turns)
      BY <1>1, <2>2, <2>3 DEF HolderOK, SavingShape, HasTurn
    <3>5. t = "opening" => c.state = "opened" /\ c.thread = 0
      BY <3>2 DEF Ready
    <3>6. HolderOK(m, c)
      BY <3>2, <3>3, <3>4, <3>5 DEF HolderOK
    <3>7. t = "sending" => c.state = "sending"
      BY <3>2 DEF Ready
    <3>8. c.state \in {"cancelled", "failed"} => t \in {"aborting", "failing"}
      BY <2>3 DEF SavingShape
    <3>9. Contended(w) => Harmless(m)
      BY <2>6, <3>3, <3>8 DEF Harmless
    <3>. QED  BY <3>3, <3>6, <3>7, <3>9
  <2>. QED  BY <2>9, <2>10
<1>. QED  BY <1>2, <1>3

LEMMA LoadInv ==
    ASSUME IInv, NEW w \in Workers, Load(w)
    PROVE  IInv'
<1>. DEFINE k == local[w]
<1>1. k.at = "loading" /\ Alone
  BY DEF Load, InTime, native, Alone
<1>2. CASE ~Holds(w)
  <2>1. Set(w, Idle)
    BY <1>2 DEF Load
  <2>. QED  BY <1>1, <2>1, GoesIdle
<1>3. CASE Holds(w)
  <2>1. /\ k \in Local /\ TypeOK /\ k.token # NoToken /\ MineOK(k.mine) /\ k.mine \in Checkpoint
        /\ k.turn <= Len(turns) /\ k.mine.state = "none" /\ ~k.late
    BY <1>1, WorkerFacts DEF Shape
  <2>2. saved \in Checkpoint /\ SavedInv
    BY DEF IInv, TypeOK
  <2>3. CASE saved.state = "none"
    <3>. DEFINE c == k.mine
                n == Opened(c, 0)
    <3>. DEFINE m == Saving(k, n, "opening")
    <3>1. Set(w, m)
      <4>1. Set(w, Entry(k, c))
        BY <1>3, <2>3 DEF Load
      <4>2. Entry(k, c) = m
        BY <2>1 DEF Entry, FirstStep
      <4>. QED  BY <4>1, <4>2
    <3>2. n \in Checkpoint /\ n.state = "opened" /\ n.thread = 0
          /\ n.receipt = c.receipt /\ n.left = c.left
      <4>1. 0 \in 0 .. MaxThreads
        BY Numbers, SMT
      <4>. QED  BY <2>1, <4>1, OpenedFields
    <3>. HIDE DEF n, m
    <3>3. "opening" \in Stages \cup {"starting"}
      BY DEF Stages
    <3>4. /\ m.at = "saving" /\ m.next = n /\ m.then = "opening" /\ m.mine = c /\ m.late = k.late
          /\ m.token = k.token
      BY <2>1, <3>2, <3>3, SavingFields, SMT DEF m
    <3>5. SavingShape(m)
      BY <2>1, <3>2, <3>4 DEF SavingShape
    <3>6. Bounds(n)
      <4>1. age = 0 /\ saved.thread = 0
        BY <2>2, <2>3, NoCheckpointFields DEF SavedInv
      <4>2. n.left \in Nat /\ n.left <= Budget
        BY <3>2, CheckpointFields, Numbers, SMT
      <4>3. n.left + age <= Budget
        BY <4>1, <4>2, Numbers, SMT
      <4>4. n.receipt <= Len(turns)
        BY <2>1, <3>2, NoCheckpointBounds DEF MineOK
      <4>. QED  BY <4>3, <4>4 DEF Bounds
    <3>7. m \in Local /\ WorkerOK(m)
      <4>1. n.state \notin HasTurn
        BY <3>2 DEF HasTurn
      <4>. QED  BY <2>1, <3>2, <3>3, <3>5, <3>6, <4>1, SavesNext, SMT DEF m
    <3>8. saved.thread = 0
      BY <2>2, <2>3, NoCheckpointFields DEF SavedInv
    <3>9. HolderOK(m, saved)
      BY <2>3, <3>2, <3>4, <3>8 DEF HolderOK, HasTurn
    <3>10. ~Contended(w)
      BY <1>3, <2>3, ContendedMeans
    <3>. QED  BY <1>1, <3>1, <3>4, <3>7, <3>9, <3>10, AloneInv
  <2>4. CASE saved.state # "none"
    <3>. DEFINE m == Entry(k, saved)
    <3>1. Set(w, m)
      BY <1>3, <2>4 DEF Load
    <3>2. MineOK(saved)
      BY <2>2, <2>4 DEF SavedInv, MineOK, HasTurn
    <3>3. CASE saved.state = "completed"
      <4>1. m = Await(k, "answering", saved)
        BY <3>3 DEF Entry
      <4>. HIDE DEF m
      <4>2. m \in Local /\ m.at = "answering" /\ m.token = k.token /\ WorkerOK(m) /\ HolderOK(m, saved)
        BY SMT, <2>1, <2>2, <3>2, <4>1, AwaitsEnd
      <4>3. ~Contended(w)
        BY <1>3, <3>3, ContendedMeans
      <4>. QED  BY <1>1, <3>1, <4>2, <4>3, AloneInv
    <3>4. CASE GivesUp(m, k, saved)
      <4>. HIDE DEF m
      <4>1. /\ m \in Local /\ m.token = k.token /\ WorkerOK(m) /\ Harmless(m)
            /\ m.at \in {"failing", "saving"} /\ HolderOK(m, saved)
        BY <2>1, <2>2, <3>2, <3>4, GivesUpOK
      <4>. QED  BY <1>1, <3>1, <4>1, AloneInv
    <3>5. CASE saved.state \notin Final \cup {"sending"} /\ ~Exhausted(saved)
      <4>1. saved.state \in {"opened", "accepted", "pausing", "paused"}
        BY <2>2, <2>4, <3>5, CheckpointFields DEF CheckpointState
      <4>2. saved.thread = 0 => saved.state = "opened"
        BY <3>2, <4>1 DEF MineOK
      <4>. DEFINE s == IF saved.thread = 0 THEN "opening" ELSE "resuming"
      <4>3. m = Await(k, s, saved) /\ s \in {"opening", "resuming"}
        BY <2>4, <3>5 DEF Entry, Refused, Final
      <4>4. Ready(k, s, saved)
        BY <2>1, <4>1, <4>2 DEF Ready
      <4>. HIDE DEF m
      <4>5. m \in Local /\ m.at = s /\ m.token = k.token /\ m.mine = saved /\ WorkerOK(m)
        <5>. HIDE DEF s
        <5>. QED  BY <2>1, <2>2, <3>2, <4>3, <4>4, AwaitsNext, SMT
      <4>6. HolderOK(m, saved)
        BY <4>2, <4>5 DEF HolderOK, Same
      <4>7. ~Contended(w)
        BY <1>3, <4>1, ContendedMeans
      <4>8. m.at # "sending"
        BY <4>5
      <4>. QED  BY <1>1, <2>4, <3>1, <4>5, <4>6, <4>7, <4>8, AloneInv
    <3>6. saved.state \in Final \cup {"sending"} \/ Exhausted(saved) =>
             saved.state = "completed" \/ GivesUp(m, k, saved)
      BY <2>4 DEF Entry, OverBudget, Refused, Final, GivesUp
    <3>. QED  BY <3>3, <3>4, <3>5, <3>6
  <2>. QED  BY <2>3, <2>4
<1>. QED  BY <1>2, <1>3

LEMMA OpenInv ==
    ASSUME IInv, NEW w \in Workers, Open(w)
    PROVE  IInv'
<1>. DEFINE k == local[w]
            c == k.mine
            n == Opened(c, threads')
            m == Saving(k, n, "starting")
<1>1. /\ k.at = "opening" /\ threads' = threads + 1 /\ threads < MaxThreads /\ Set(w, m)
      /\ UNCHANGED <<run, saved, turns, age, faults>>
  BY DEF Open, InTime
<1>2. /\ k \in Local /\ TypeOK /\ Shape(k) /\ k.token # NoToken /\ MineOK(c) /\ c \in Checkpoint
      /\ k.turn <= Len(turns) /\ (Holds(w) => HolderOK(k, saved))
  BY <1>1, WorkerFacts
<1>3. c.state = "opened" /\ c.thread = 0 /\ ~k.late /\ saved.state # "none"
  BY <1>1, <1>2 DEF Shape, IInv, WorkerInv
<1>4. threads' \in 0 .. MaxThreads /\ threads' # 0
  BY <1>1, <1>2, Numbers, SMT DEF TypeOK
<1>5. /\ n \in Checkpoint /\ n.state = "opened" /\ n.thread = threads'
      /\ n.receipt = c.receipt /\ n.left = c.left
  BY <1>2, <1>4, OpenedFields
<1>6. faults' \in 0 .. MaxFaults
  BY <1>1, <1>2 DEF TypeOK
<1>. HIDE DEF n, m
<1>7. "starting" \in Stages \cup {"starting"}
  OBVIOUS
<1>8. /\ m.at = "saving" /\ m.next = n /\ m.then = "starting" /\ m.mine = c /\ m.late = k.late
      /\ m.token = k.token
  BY <1>2, <1>5, <1>7, SavingFields, SMT DEF m
<1>9. SavingShape(m)
  BY <1>3, <1>4, <1>5, <1>8 DEF SavingShape
<1>10. Bounds(n) /\ n.state \notin HasTurn
  BY <1>2, <1>3, <1>5, BoundsOf DEF MineOK, HasTurn
<1>11. m \in Local /\ WorkerOK(m)
  BY <1>2, <1>5, <1>7, <1>9, <1>10, SavesNext, SMT DEF m
<1>12. ASSUME Holds(w) PROVE HolderOK(m, saved)
  <2>1. saved.state = "opened" /\ saved.thread = 0
    BY <1>1, <1>2, <1>12 DEF HolderOK
  <2>. QED  BY <1>5, <1>8, <2>1 DEF HolderOK, HasTurn
<1>13. Holds(w) => ~Contended(w)
  BY <1>1, ContendedMeans DEF Harmless
<1>14. UNCHANGED <<run, saved, turns, age>>
  BY <1>1
<1>. QED
  BY <1>1, <1>3, <1>4, <1>6, <1>8, <1>11, <1>12, <1>13, <1>14, MoveInv

\* The outcome of an accepted turn is saved.
Outcome(k, s, t) ==
    \/ s = "pausing" /\ t = "interrupting"
    \/ s = "completed" /\ t = "closing"
    \/ s = "paused" /\ t = IF k.late THEN "expired" ELSE "starting"

LEMMA SavesTurn ==
    ASSUME TypeOK, NEW k \in Local, k.token # NoToken, MineOK(k.mine), k.turn <= Len(turns),
           k.mine.state \in {"accepted", "pausing"},
           NEW s, NEW t, Outcome(k, s, t), NEW m, m = Saving(k, As(k.mine, s), t), NEW d
    PROVE  /\ m \in Local /\ m.at = "saving" /\ m.token = k.token /\ WorkerOK(m)
           /\ /\ d.thread = 0 \/ k.mine.thread = d.thread
              /\ k.mine.receipt = Len(turns)
              /\ s = "completed" => turns[Len(turns)].status = "done"
              /\ s = "paused" => turns[Len(turns)].status # "running"
              => HolderOK(m, d)
<1>. DEFINE c == k.mine
            n == As(c, s)
<1>1. c \in Checkpoint /\ k.late \in BOOLEAN
  BY LocalFields
<1>2. s \in {"pausing", "completed", "paused"} /\ t \in Stages \cup {"starting"}
  BY <1>1 DEF Outcome, Stages
<1>3. /\ n \in Checkpoint /\ n.state = s /\ n.thread = c.thread
      /\ n.receipt = c.receipt /\ n.left = c.left
  BY <1>1, <1>2, AsFields DEF CheckpointState, Final
<1>4. m = Saving(k, n, t)
  OBVIOUS
<1>. HIDE DEF n
<1>5. /\ m \in Local /\ m.at = "saving" /\ m.next = n /\ m.then = t /\ m.mine = c
      /\ m.late = k.late /\ m.token = k.token
  BY <1>2, <1>3, <1>4, SavingFields, SMT
<1>6. c.receipt # 0 /\ c.thread # 0 /\ Bounds(c)
  BY DEF MineOK
<1>7. SavingShape(m)
  BY <1>1, <1>3, <1>5, <1>6 DEF Outcome, SavingShape
<1>8. Bounds(n) /\ n.receipt # 0 /\ n.thread # 0
  BY <1>1, <1>3, <1>6, BoundsOf
<1>9. WorkerOK(m)
  BY <1>2, <1>3, <1>4, <1>7, <1>8, SavesNext, SMT
<1>10. ASSUME d.thread = 0 \/ c.thread = d.thread, c.receipt = Len(turns),
              s = "completed" => turns[Len(turns)].status = "done",
              s = "paused" => turns[Len(turns)].status # "running"
       PROVE  HolderOK(m, d)
  <2>1. s # "opened" /\ s # "sending" /\ t # "opening"
    BY DEF Outcome
  <2>. QED  BY <1>3, <1>5, <1>10, <2>1 DEF HolderOK
<1>. QED  BY <1>5, <1>9, <1>10

\* A holder that is past the load, and is not giving up, is alone.
LEMMA NotContended ==
    ASSUME IInv, NEW w \in Workers, local[w].at \in Working \ {"saving"}, Holds(w)
    PROVE  ~Contended(w)
BY ContendedMeans DEF Harmless, Working

LEMMA ResumeInv ==
    ASSUME IInv, NEW w \in Workers, Resume(w)
    PROVE  IInv'
<1>. DEFINE k == local[w]
            c == k.mine
<1>1. k.at = "resuming" /\ Alone
  BY DEF Resume, InTime, native, Alone
<1>2. /\ k \in Local /\ TypeOK /\ Shape(k) /\ k.token # NoToken /\ MineOK(c) /\ c \in Checkpoint
      /\ k.turn <= Len(turns) /\ (Holds(w) => HolderOK(k, saved))
  BY <1>1, WorkerFacts
<1>3. c.state \in {"opened", "accepted", "pausing", "paused"} /\ c.thread # 0 /\ ~k.late
  BY <1>1, <1>2 DEF Shape
<1>4. Holds(w) => ~Contended(w)
  BY <1>1, NotContended DEF Working
<1>5. ASSUME Holds(w)
      PROVE  /\ Same(saved, c) /\ c.thread = saved.thread
             /\ c.state \in {"accepted", "pausing"} => c.receipt = Len(turns)
  <2>1. Same(saved, c)
    BY <1>1, <1>2, <1>5 DEF HolderOK
  <2>. QED  BY <2>1 DEF Same, IInv, SavedInv, HasTurn
<1>6. CASE c.state = "accepted"
  <2>. DEFINE m == Saving(k, As(c, "pausing"), "interrupting")
  <2>1. Set(w, m)
    BY <1>6 DEF Resume
  <2>. HIDE DEF m
  <2>2. /\ m \in Local /\ m.at = "saving" /\ m.token = k.token /\ WorkerOK(m)
        /\ Holds(w) => HolderOK(m, saved)
    <3>1. Outcome(k, "pausing", "interrupting")
      BY DEF Outcome
    <3>. QED  BY <1>2, <1>5, <1>6, <3>1, SavesTurn, SMT DEF m
  <2>. QED  BY <1>1, <1>4, <2>1, <2>2, AloneInv
<1>7. CASE c.state = "pausing"
  <2>. DEFINE m == Await(k, "interrupting", c)
  <2>1. Set(w, m) /\ Ready(k, "interrupting", c)
    BY <1>7 DEF Resume, Ready
  <2>. HIDE DEF m
  <2>2. m \in Local /\ m.at = "interrupting" /\ m.token = k.token /\ m.mine = c /\ WorkerOK(m)
    BY <1>2, <2>1, AwaitsNext, SMT DEF m
  <2>3. Holds(w) => HolderOK(m, saved)
    BY <1>5, <1>7, <2>2 DEF HolderOK
  <2>. QED  BY <1>1, <1>4, <2>1, <2>2, <2>3, AloneInv
<1>8. CASE c.state \in {"opened", "paused"}
  <2>. DEFINE m == Following(k, c, "starting")
  <2>1. Set(w, m)
    BY <1>8 DEF Resume
  <2>. HIDE DEF m
  <2>2. Same(c, c)
    BY DEF Same
  <2>3. m \in Local /\ m.at = "saving" /\ m.token = k.token /\ WorkerOK(m)
    BY <1>2, <1>3, <1>8, <2>2, StartsFrom, SMT DEF m
  <2>4. Holds(w) => HolderOK(m, saved)
    BY <1>2, <1>3, <1>5, <1>8, StartsFrom, SMT DEF m
  <2>. QED  BY <1>1, <1>4, <2>1, <2>3, <2>4, AloneInv
<1>. QED  BY <1>3, <1>6, <1>7, <1>8

LEMMA ReceiveInv ==
    ASSUME IInv, NEW w \in Workers, Receive(w)
    PROVE  IInv'
<1>. DEFINE k == local[w]
            l == [k EXCEPT !.turn = 0]
            c == k.mine
            n == Accepted(c, k.turn)
            m == Saving(l, n, "capturing")
<1>1. k.at = "sent" /\ Alone /\ Set(w, m)
  BY DEF Receive, InTime, native, Alone
<1>2. /\ k \in Local /\ TypeOK /\ Shape(k) /\ k.token # NoToken /\ MineOK(c) /\ c \in Checkpoint
      /\ k.turn <= Len(turns) /\ k.turn \in 0 .. MaxTurns /\ (Holds(w) => HolderOK(k, saved))
  BY <1>1, WorkerFacts
<1>3. c.state = "sending" /\ c.thread # 0 /\ k.turn # 0
  BY <1>1, <1>2 DEF Shape
<1>4. l \in Local /\ l.token = k.token /\ l.turn = 0 /\ l.mine = c
  <2>1. 0 \in 0 .. MaxTurns
    BY Numbers, SMT
  <2>. QED  BY <1>2, <2>1 DEF Local
<1>5. /\ n \in Checkpoint /\ n.state = "accepted" /\ n.thread = c.thread
      /\ n.receipt = k.turn /\ n.left = c.left
  BY <1>2, AcceptedFields
<1>6. "capturing" \in Stages \cup {"starting"}
  BY DEF Stages
<1>. HIDE DEF l, n, m
<1>7. /\ m.at = "saving" /\ m.next = n /\ m.then = "capturing" /\ m.mine = c /\ m.token = k.token
  BY <1>4, <1>5, <1>6, SavingFields, SMT DEF m
<1>8. SavingShape(m)
  BY <1>5, <1>7 DEF SavingShape
<1>9. Bounds(n) /\ n.receipt # 0 /\ n.thread # 0
  <2>1. c.left + age <= Budget
    BY <1>2, <1>3 DEF MineOK, Bounds
  <2>2. n.left + age <= Budget /\ n.receipt <= Len(turns)
    BY <1>2, <1>5, <2>1
  <2>. QED  BY <1>3, <1>5, <2>2 DEF Bounds
<1>10. m \in Local /\ WorkerOK(m)
  <2>1. l.token # NoToken /\ MineOK(l.mine) /\ l.turn <= Len(turns)
    BY <1>2, <1>4, NoCheckpointBounds
  <2>. QED  BY <1>2, <1>4, <1>5, <1>6, <1>8, <1>9, <2>1, SavesNext, SMT DEF m
<1>11. ASSUME Holds(w) PROVE HolderOK(m, saved)
  <2>1. k.turn = Len(turns) /\ (saved.thread = 0 \/ c.thread = saved.thread)
    BY <1>1, <1>2, <1>11 DEF HolderOK, Working
  <2>. QED  BY <1>5, <1>7, <2>1 DEF HolderOK
<1>12. Holds(w) => ~Contended(w)
  BY <1>1, NotContended DEF Working
<1>. QED  BY <1>1, <1>7, <1>10, <1>11, <1>12, AloneInv

\* The worker that waits for a turn's outcome.
LEMMA WaitsForTurn ==
    ASSUME IInv, NEW w \in Workers, local[w].at \in {"capturing", "interrupting"}
    PROVE  /\ local[w].mine.state \in {"accepted", "pausing"}
           /\ Status(w) \in {"running", "done", "stopped"}
           /\ Holds(w) => /\ ~Contended(w) /\ local[w].mine.receipt = Len(turns)
                          /\ saved.thread = 0 \/ local[w].mine.thread = saved.thread
                          /\ Status(w) = turns[Len(turns)].status
<1>. DEFINE k == local[w]
            c == k.mine
<1>1. /\ TypeOK /\ Shape(k) /\ MineOK(c) /\ c \in Checkpoint /\ (Holds(w) => HolderOK(k, saved))
  BY WorkerFacts
<1>2. c.state \in {"accepted", "pausing"} /\ c.receipt # 0
  BY <1>1 DEF Shape
<1>3. c.receipt \in DOMAIN turns
  BY <1>1, <1>2, ReceiptIsTurn
<1>4. Status(w) \in {"running", "done", "stopped"}
  BY <1>1, <1>3, TurnsTyped DEF Status
<1>5. ASSUME Holds(w)
      PROVE  /\ ~Contended(w) /\ c.receipt = Len(turns)
             /\ saved.thread = 0 \/ c.thread = saved.thread
  BY <1>1, <1>5, NotContended DEF HolderOK, Working
<1>6. Holds(w) => Status(w) = turns[Len(turns)].status
  BY <1>5 DEF Status
<1>. QED  BY <1>2, <1>4, <1>5, <1>6

LEMMA CaptureInv ==
    ASSUME IInv, NEW w \in Workers, Capture(w)
    PROVE  IInv'
<1>. DEFINE k == local[w]
            m == Saving(k, As(k.mine, "completed"), "closing")
<1>1. k.at = "capturing" /\ Alone /\ Set(w, m) /\ Status(w) = "done"
  BY DEF Capture, InTime, native, Alone
<1>2. k \in Local /\ TypeOK /\ k.token # NoToken /\ MineOK(k.mine) /\ k.turn <= Len(turns)
  BY <1>1, WorkerFacts
<1>3. /\ k.mine.state \in {"accepted", "pausing"}
      /\ Holds(w) => /\ ~Contended(w) /\ k.mine.receipt = Len(turns)
                     /\ saved.thread = 0 \/ k.mine.thread = saved.thread
                     /\ Status(w) = turns[Len(turns)].status
  BY <1>1, WaitsForTurn
<1>. HIDE DEF m
<1>4. /\ m \in Local /\ m.at = "saving" /\ m.token = k.token /\ WorkerOK(m)
      /\ Holds(w) => HolderOK(m, saved)
  <2>1. Outcome(k, "completed", "closing")
    BY DEF Outcome
  <2>. QED  BY <1>1, <1>2, <1>3, <2>1, SavesTurn, SMT DEF m
<1>. QED  BY <1>1, <1>3, <1>4, AloneInv

LEMMA PauseInv ==
    ASSUME IInv, NEW w \in Workers, Pause(w)
    PROVE  IInv'
<1>. DEFINE k == local[w]
            c == k.mine
<1>1. k.at = "interrupting" /\ Alone
  BY DEF Pause, InTime, native, Alone
<1>2. /\ k \in Local /\ TypeOK /\ k.token # NoToken /\ MineOK(c) /\ c \in Checkpoint
      /\ k.turn <= Len(turns)
  BY <1>1, WorkerFacts
<1>3. /\ c.state \in {"accepted", "pausing"} /\ Status(w) \in {"running", "done", "stopped"}
      /\ Holds(w) => /\ ~Contended(w) /\ c.receipt = Len(turns)
                     /\ saved.thread = 0 \/ c.thread = saved.thread
                     /\ Status(w) = turns[Len(turns)].status
  BY <1>1, WaitsForTurn
<1>4. CASE Status(w) = "done"
  <2>. DEFINE m == Saving(k, As(c, "completed"), "closing")
  <2>1. Set(w, m)
    BY <1>4 DEF Pause
  <2>. HIDE DEF m
  <2>2. /\ m \in Local /\ m.at = "saving" /\ m.token = k.token /\ WorkerOK(m)
        /\ Holds(w) => HolderOK(m, saved)
    <3>1. Outcome(k, "completed", "closing")
      BY DEF Outcome
    <3>. QED  BY <1>2, <1>3, <1>4, <3>1, SavesTurn, SMT DEF m
  <2>. QED  BY <1>1, <1>3, <2>1, <2>2, AloneInv
<1>5. CASE Status(w) = "stopped"
  <2>. DEFINE t == IF k.late THEN "expired" ELSE "starting"
              m == Saving(k, As(c, "paused"), t)
  <2>1. Set(w, m)
    BY <1>5 DEF Pause
  <2>. HIDE DEF m
  <2>2. /\ m \in Local /\ m.at = "saving" /\ m.token = k.token /\ WorkerOK(m)
        /\ Holds(w) => HolderOK(m, saved)
    <3>1. Status(w) # "running"
      BY <1>5
    <3>2. ASSUME NEW d
          PROVE  /\ m \in Local /\ m.at = "saving" /\ m.token = k.token /\ WorkerOK(m)
                 /\ /\ d.thread = 0 \/ k.mine.thread = d.thread
                    /\ k.mine.receipt = Len(turns)
                    /\ turns[Len(turns)].status # "running"
                    => HolderOK(m, d)
      <4>1. Outcome(k, "paused", t) /\ m = Saving(k, As(k.mine, "paused"), t)
        BY DEF m, Outcome
      <4>. HIDE DEF t
      <4>. QED  BY SMT, <1>2, <1>3, <4>1, SavesTurn
    <3>. QED  BY <1>3, <3>1, <3>2
  <2>. QED  BY <1>1, <1>3, <2>1, <2>2, AloneInv
<1>6. CASE Status(w) = "running"
  <2>. DEFINE t == IF k.late THEN "expired" ELSE "failing"
              m == Await(k, t, c)
  <2>1. Set(w, m)
    BY <1>6 DEF Pause
  <2>2. t \in {"expired", "failing"}
    OBVIOUS
  <2>. HIDE DEF t, m
  <2>3. Ready(k, t, c)
    BY <2>2 DEF Ready
  <2>4. m \in Local /\ m.at = t /\ m.token = k.token /\ m.mine = c /\ WorkerOK(m)
    BY <1>2, <2>2, <2>3, AwaitsNext, SMT DEF m
  <2>5. Holds(w) => HolderOK(m, saved)
    BY <1>3, <2>2, <2>4 DEF HolderOK
  <2>. QED  BY <1>1, <1>3, <2>1, <2>2, <2>4, <2>5, AloneInv
<1>. QED  BY <1>3, <1>4, <1>5, <1>6

\* The worker leaves the attempt.
LEMMA EndInv ==
    ASSUME IInv, NEW w \in Workers, Alone, local[w].at # "idle",
           NEW s \in {"failing", "answering"},
           Set(w, Await(local[w], s, local[w].mine)),
           Holds(w) => ~Contended(w) \/ s = "failing"
    PROVE  IInv'
<1>. DEFINE k == local[w]
            m == Await(k, s, k.mine)
<1>1. /\ k \in Local /\ TypeOK /\ k.token # NoToken /\ MineOK(k.mine) /\ k.mine \in Checkpoint
      /\ k.turn <= Len(turns)
  BY WorkerFacts
<1>. HIDE DEF m
<1>2. m \in Local /\ m.at = s /\ m.token = k.token /\ WorkerOK(m) /\ HolderOK(m, saved)
  <2>1. s \in {"failing", "answering", "aborting"} /\ m = Await(k, s, k.mine)
    BY DEF m
  <2>. HIDE DEF k
  <2>. QED  BY SMT, <1>1, <2>1, AwaitsEnd
<1>3. Set(w, m)
  BY DEF m
<1>4. s = "failing" => Harmless(m)
  BY <1>2 DEF Harmless
<1>. QED  BY <1>2, <1>3, <1>4, AloneInv

LEMMA CloseInv ==
    ASSUME IInv, NEW w \in Workers, Close(w)
    PROVE  IInv'
<1>1. local[w].at = "closing" /\ Alone
  BY DEF Close, native, Alone
<1>2. Holds(w) => ~Contended(w)
  BY <1>1, NotContended DEF Working
<1>. QED  BY <1>1, <1>2, EndInv DEF Close

LEMMA AbortInv ==
    ASSUME IInv, NEW w \in Workers, Abort(w) \/ AnswerFails(w)
    PROVE  IInv'
<1>1. local[w].at # "idle" /\ Alone /\ Set(w, Await(local[w], "failing", local[w].mine))
  BY DEF Abort, AnswerFails, native, Alone
<1>. QED  BY <1>1, EndInv

LEMMA ExpireInv ==
    ASSUME IInv, NEW w \in Workers, Expire(w)
    PROVE  IInv'
<1>. DEFINE k == local[w]
            m == Expired(k, k.mine)
<1>1. k.at = "expired" /\ Alone /\ Set(w, m)
  BY DEF Expire, native, Alone
<1>2. /\ k \in Local /\ TypeOK /\ k.token # NoToken /\ MineOK(k.mine) /\ k.mine \in Checkpoint
      /\ k.turn <= Len(turns) /\ (Holds(w) => HolderOK(k, saved))
  BY <1>1, WorkerFacts
<1>3. GivesUp(m, k, k.mine)
  BY Expires
<1>. HIDE DEF m
<1>4. /\ m \in Local /\ m.token = k.token /\ WorkerOK(m) /\ Harmless(m)
      /\ m.at \in {"failing", "saving"} /\ (Holds(w) => HolderOK(m, saved))
  <2>1. Holds(w) => saved.thread = 0 \/ k.mine.thread = saved.thread
    BY <1>1, <1>2 DEF HolderOK, Working
  <2>. QED  BY SMT, <1>2, <1>3, <2>1, GivesUpOK
<1>. QED  BY <1>1, <1>4, AloneInv

LEMMA BackendRaisesInv ==
    ASSUME IInv, NEW w \in Workers, BackendRaises(w)
    PROVE  IInv'
<1>. DEFINE k == local[w]
            l == [k EXCEPT !.turn = 0]
<1>1. k.at \in Working \ {"saving"} /\ Alone
  BY DEF BackendRaises, InTime, Attempting, Working, native, Alone
<1>2. /\ k \in Local /\ TypeOK /\ k.token # NoToken /\ MineOK(k.mine) /\ k.mine \in Checkpoint
      /\ (Holds(w) => HolderOK(k, saved))
  BY <1>1, WorkerFacts DEF Working
<1>3. l \in Local /\ l.token = k.token /\ l.turn = 0 /\ l.mine = k.mine
  <2>1. 0 \in 0 .. MaxTurns
    BY Numbers, SMT
  <2>. QED  BY <1>2, <2>1 DEF Local
<1>4. PICK m : Set(w, m) /\ m \in {Failed(l, l.mine), Await(l, "failing", l.mine)}
  BY DEF BackendRaises
<1>. HIDE DEF l
<1>5. GivesUp(m, l, l.mine)
  BY <1>3, <1>4, Fails DEF GivesUp
<1>6. l.token # NoToken /\ MineOK(l.mine) /\ l.mine \in Checkpoint /\ l.turn <= Len(turns)
  BY <1>2, <1>3, NoCheckpointBounds
<1>7. Holds(w) => saved.thread = 0 \/ l.mine.thread = saved.thread
  BY <1>1, <1>2, <1>3 DEF HolderOK
<1>8. /\ m \in Local /\ m.token = l.token /\ WorkerOK(m) /\ Harmless(m)
      /\ m.at \in {"failing", "saving"} /\ (Holds(w) => HolderOK(m, saved))
  BY SMT, <1>2, <1>3, <1>5, <1>6, <1>7, GivesUpOK
<1>. QED  BY <1>1, <1>3, <1>4, <1>8, AloneInv

LEMMA FinalizeInv ==
    ASSUME IInv, NEW w \in Workers, Finalize(w)
    PROVE  IInv'
<1>1. Set(w, Idle) /\ UNCHANGED <<saved, threads, turns, age, faults>> /\ TypeOK
  BY DEF Finalize, native, IInv
<1>2. CASE ~Holds(w)
  <2>1. Alone
    BY <1>1, <1>2 DEF Finalize, Alone
  <2>. QED  BY <1>1, <2>1, GoesIdle
<1>3. CASE Holds(w)
  <2>1. /\ run' \in [status : {"absent", "running", "completed", "failed"},
                     token : Tokens, left : 0 .. StaleSeconds]
        /\ run'.status # "running"
    <3>1. 0 \in 0 .. StaleSeconds
      BY Numbers, SMT
    <3>. QED  BY <1>3, <3>1, TokenFacts DEF Finalize
  <2>2. TokenInv'
    <3>1. local \in [Workers -> Local]
      BY <1>1 DEF TypeOK, Local
    <3>2. \A v \in Workers : local'[v].token = local[v].token \/ local'[v].token = NoToken
      BY <1>1, <3>1, IdleFields DEF Set
    <3>. QED  BY <2>1, <3>2 DEF IInv, TokenInv
  <2>3. \A v \in Workers : ~Holds(v)'
    BY <2>1 DEF Holds
  <2>. QED  BY <1>1, <2>1, <2>2, <2>3, IdleOK, LeaseInv
<1>. QED  BY <1>2, <1>3

----------------------------------------------------------------------------
\* The invariant is inductive.

LEMMA StepInv ==
    ASSUME IInv, [Next]_vars
    PROVE  IInv'
<1>1. ASSUME NEW w \in Workers, Step(w) PROVE IInv'
  <2>1. CASE Timeout(w)
    BY <2>1, TimesOutInv DEF Timeout
  <2>. QED
    BY <1>1, <2>1, LoadInv, OpenInv, ResumeInv, SaveInv, SendInv, ReceiveInv, CaptureInv,
       PauseInv, CloseInv, ExpireInv, AbortInv, FinalizeInv
    DEF Step
<1>2. ASSUME NEW w \in Workers, Stall(w) PROVE IInv'
  BY <1>2, TimesOutInv DEF Stall
<1>3. ASSUME NEW w \in Workers, Redelivered(w) PROVE IInv'
  BY <1>3, StutterInv DEF Redelivered
<1>4. CASE UNCHANGED vars
  BY <1>4, StutterInv
<1>5. CASE Next
  BY <1>1, <1>2, <1>3, <1>5, ClaimInv, BackendRaisesInv, AbortInv, CancelInv, CrashInv,
     TurnInv, TickInv
  DEF Next
<1>. QED  BY <1>4, <1>5

LEMMA Invariance == Spec => []IInv
BY InitInv, StepInv, PTL DEF Spec

----------------------------------------------------------------------------
\* Whatever order leases are lost and taken over in, backends fail and saves are cut
\* short: the native turns of a request are on one thread, at most one of them runs, and
\* a completed checkpoint holds the answer of the last one.
THEOREM OneTurnOneThread == Spec => []CheckpointConsistent
<1>1. IInv => CheckpointConsistent
  <2>. SUFFICES ASSUME IInv PROVE CheckpointConsistent
    OBVIOUS
  <2>1. TypeOK /\ SavedInv
    BY DEF IInv
  <2>2. AnswerOfLastTurn
    <3>1. ASSUME saved.state = "completed"
          PROVE  saved.receipt = Len(turns) /\ turns[Len(turns)].status = "done"
      BY <2>1, <3>1 DEF SavedInv, HasTurn
    <3>2. saved.state = "completed" => turns[saved.receipt].status = "done"
      BY <3>1
    <3>. QED  BY <3>1, <3>2 DEF AnswerOfLastTurn
  <2>3. OneTurnAtATime
    <3>1. ASSUME NEW i \in DOMAIN turns, NEW j \in DOMAIN turns
          PROVE  turns[i].thread = turns[j].thread
      BY <2>1 DEF SavedInv
    <3>2. ASSUME NEW i \in DOMAIN turns, turns[i].status = "running"
          PROVE  i = Len(turns)
      <4>1. ~(i < Len(turns))
        BY <2>1, <3>2 DEF SavedInv
      <4>. QED  BY <2>1, <4>1, TurnsTyped, SMT
    <3>. QED  BY <3>1, <3>2 DEF OneTurnAtATime
  <2>. QED  BY <2>1, <2>2, <2>3 DEF CheckpointConsistent
<1>. QED  BY <1>1, Invariance, PTL

\* No turn is started once the total budget has passed since the first native thread was
\* asked for: what is left of it survives crashes and take-overs in the checkpoint, and no
\* worker's copy has more left than that.
THEOREM BudgetSurvives == Spec => BudgetIsTotal
<1>1. ASSUME IInv, [Next]_vars PROVE [Len(turns') > Len(turns) => age < Budget]_vars
  <2>1. SUFFICES ASSUME Len(turns') > Len(turns) PROVE age < Budget
    OBVIOUS
  <2>2. TypeOK /\ Len(turns) \in Nat
    BY <1>1, TurnsTyped DEF IInv
  <2>3. ASSUME turns' = turns PROVE FALSE
    BY <2>1, <2>2, <2>3, SMT
  <2>4. ASSUME NEW i, NEW s, turns' = [turns EXCEPT ![i].status = s] PROVE FALSE
    <3>1. Len(turns') = Len(turns)
      BY <2>2, <2>4, SMT DEF TypeOK
    <3>. QED  BY <2>1, <2>2, <3>1, SMT
  <2>5. ASSUME NEW w \in Workers, Send(w) PROVE age < Budget
    <3>1. local[w].at = "sending" /\ (local[w].mine.left > 0 \/ local[w].late)
      BY <2>5 DEF Send, InTime
    <3>2. Shape(local[w]) /\ MineOK(local[w].mine) /\ local[w].mine \in Checkpoint
      BY <1>1, WorkerFacts
    <3>3. local[w].mine.left > 0 /\ local[w].mine.state # "none"
      BY <3>1, <3>2 DEF Shape
    <3>4. local[w].mine.left + age <= Budget /\ local[w].mine.left \in Nat
      BY <3>2, <3>3, CheckpointFields DEF MineOK, Bounds
    <3>5. age \in Nat
      BY <2>2, Numbers, SMT DEF TypeOK
    <3>. QED  BY <3>3, <3>4, <3>5, Numbers, SMT
  <2>6. ASSUME NEW w \in Workers,
               Step(w) \/ Claim(w) \/ Redelivered(w) \/ BackendRaises(w) \/ AnswerFails(w)
               \/ Stall(w) \/ Cancel(w) \/ Crash(w)
        PROVE  Send(w) \/ turns' = turns
    <3>1. CASE Step(w)
      BY <3>1 DEF Step, Load, Open, Resume, Save, Receive, Capture, Pause, Close, Timeout,
                  TimesOut, Expire, Abort, Finalize, native
    <3>2. CASE Claim(w) \/ Redelivered(w) \/ BackendRaises(w) \/ AnswerFails(w)
               \/ Stall(w) \/ Cancel(w) \/ Crash(w)
      BY <3>2 DEF Claim, Redelivered, BackendRaises, AnswerFails, Stall, TimesOut, Cancel,
                  Crash, native, vars
    <3>. QED  BY <2>6, <3>1, <3>2
  <2>7. CASE Tick \/ UNCHANGED vars
    BY <2>3, <2>7 DEF Tick, vars, native
  <2>8. CASE TurnEnds \/ TurnStops
    BY <2>4, <2>8 DEF TurnEnds, TurnStops
  <2>. QED  BY <1>1, <2>3, <2>5, <2>6, <2>7, <2>8 DEF Next
<1>. QED  BY <1>1, Invariance, PTL DEF Spec, BudgetIsTotal

=============================================================================
