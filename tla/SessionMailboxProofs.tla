------------------------ MODULE SessionMailboxProofs ------------------------
(***************************************************************************)
(* Proofs about SessionMailbox, for any prompts, workers and callers of    *)
(* close_session, any attempt limit and any deadlines.                     *)
(***************************************************************************)
EXTENDS SessionMailbox, WellFoundedInduction, FiniteSetTheorems, TLAPS

\* Most steps are first-order reasoning; those that are not name their prover.
USE Zenon

ItemRow == [status : ItemStatus, accepted : BOOLEAN,
            attempts : 0 .. MaxAttempts + 1, wait : 0 .. RetrySeconds,
            stale : 0 .. StaleSeconds, deadline : 0 .. CaptureSeconds]

Typed ==
    /\ session \in SessionStatus
    /\ closing \in 0 .. ClosingSeconds
    /\ item \in [Prompts -> ItemRow]
    /\ arrival \in Seq(Prompts)
    /\ stage \in [Workers -> Stages]
    /\ current \in [Workers -> Prompts \cup {Nothing}]
    /\ closer \in [Closers -> {"none", "selected", "closing"}]
    /\ sends \in [Prompts -> Nat]
    /\ stops \in 0 .. MaxStops
    /\ overlapped \in BOOLEAN

\* A worker in the middle of _send_item has an item.
WorkerInv == \A w \in Workers : stage[w] = "idle" <=> current[w] = Nothing

\* Every prompt in the mailbox was inserted once.
ArrivalInv ==
    /\ \A i, j \in DOMAIN arrival : arrival[i] = arrival[j] => i = j
    /\ \A m \in Prompts : item[m].status # "absent" => \E i \in DOMAIN arrival : arrival[i] = m
    /\ \A i \in DOMAIN arrival : item[arrival[i]].status # "absent"

\* An item that waits has not been touched; one in flight has attempts left.
Waiting(m) == item[m].status \in {"absent", "queued"}

ItemInv == \A m \in Prompts :
    /\ Waiting(m) => /\ item[m].attempts = 0 /\ ~item[m].accepted /\ sends[m] = 0
                     /\ \A w \in Workers : current[w] # m
    /\ item[m].status = "sending" => item[m].attempts <= MaxAttempts
    /\ sends[m] <= 1

\* The right to send: only the worker that claimed the item from the queue has it, until
\* the item is accepted; it is used up by the call of the backend.
Sender(w) ==
    /\ stage[w] \in {"begin", "send", "accept", "refuse"}
    /\ ~item[current[w]].accepted

SenderInv ==
    /\ \A w \in Workers :
         /\ stage[w] \in {"send", "accept", "refuse"} => ~item[current[w]].accepted
         /\ Sender(w) /\ stage[w] \in {"begin", "send"} => sends[current[w]] = 0
    /\ \A v, w \in Workers : Sender(v) /\ Sender(w) /\ current[v] = current[w] => v = w

\* One delivery at a time, in the order of arrival.
FlightInv == \A m, n \in InFlight : m = n

OrderInv ==
    \A i, j \in DOMAIN arrival :
        i < j /\ item[arrival[j]].status # "queued" => item[arrival[i]].status \in Settled

\* As long as no two workers and no two closers were at the session together, the worker
\* that is there owns the delivery in flight, and a closer has the session for itself.
AloneInv ==
    ~overlapped =>
        /\ \A v, w \in Workers : stage[v] # "idle" /\ stage[w] # "idle" => v = w
        /\ \A w \in Workers : stage[w] # "idle" => item[current[w]].status = "sending"
        /\ \A c, d \in Closing : c = d
        /\ Closing # {} => session \in {"closing", "failed"} /\ Queued = {} /\ InFlight = {}
        /\ session \in {"closing", "closed"} => Queued = {} /\ InFlight = {}
        /\ session = "busy" => InFlight # {}

IInv ==
    /\ Typed /\ WorkerInv /\ ArrivalInv /\ ItemInv /\ SenderInv
    /\ FlightInv /\ OrderInv /\ AloneInv

----------------------------------------------------------------------------
\* The oldest of a set of mailbox items.

LEMMA LeastNatural ==
    ASSUME NEW S \in SUBSET Nat, S # {}
    PROVE  \E n \in S : \A k \in S : n <= k
<1>. DEFINE R == {ss \in Nat \X Nat : ss[1] < ss[2]}
<1>1. IsWellFoundedOn(R, Nat)
  BY NatLessThanWellFounded DEF OpToRel
<1>2. ASSUME NEW k \in Nat, NEW n \in Nat, k < n PROVE <<k, n>> \in R
  BY <1>2
<1>. HIDE DEF R
<1>3. PICK n \in S : \A k \in S : <<k, n>> \notin R
  BY <1>1, WFMin
<1>4. \A k \in S : ~(k < n)
  BY <1>2, <1>3
<1>. QED  BY <1>4, SMT

LEMMA PositionFacts ==
    ASSUME Typed, ArrivalInv, NEW m \in Prompts, item[m].status # "absent"
    PROVE  /\ Position(m) \in DOMAIN arrival
           /\ arrival[Position(m)] = m
           /\ Position(m) \in Nat
<1>1. \E i \in DOMAIN arrival : arrival[i] = m
  BY DEF ArrivalInv
<1>2. Position(m) \in DOMAIN arrival /\ arrival[Position(m)] = m
  BY <1>1 DEF Position
<1>. QED  BY <1>2, SMT DEF Typed

LEMMA OldestFacts ==
    ASSUME Typed, ArrivalInv, NEW S \in SUBSET Prompts, S # {},
           \A m \in S : item[m].status # "absent"
    PROVE  /\ Oldest(S) \in S
           /\ \A n \in S : Position(Oldest(S)) <= Position(n)
<1>. DEFINE P == {Position(m) : m \in S}
<1>1. P \in SUBSET Nat /\ P # {}
  BY PositionFacts
<1>2. PICK p \in P : \A k \in P : p <= k
  BY <1>1, LeastNatural
<1>3. PICK m \in S : p = Position(m)
  BY <1>2
<1>4. \A n \in S : Position(m) <= Position(n)
  BY <1>2, <1>3
<1>. QED  BY <1>4 DEF Oldest

----------------------------------------------------------------------------
LEMMA Limits ==
    /\ MaxAttempts \in Nat /\ MaxAttempts >= 1
    /\ RetrySeconds \in Nat /\ CaptureSeconds \in Nat /\ StaleSeconds \in Nat
    /\ ClosingSeconds \in Nat /\ MaxStops \in Nat
BY MailboxAssumption, SMT

LEMMA InitInv == Init => IInv
<1>. SUFFICES ASSUME Init PROVE IInv
  OBVIOUS
<1>. USE MailboxAssumption
<1>1. Typed
  <2>1. NoItem \in ItemRow
    BY Limits, SMT DEF NoItem, ItemRow, ItemStatus
  <2>2. arrival \in Seq(Prompts)
    BY SMT DEF Init
  <2>3. overlapped \in BOOLEAN
    BY Zenon DEF Init
  <2>4. /\ session \in SessionStatus
        /\ closing \in 0 .. ClosingSeconds /\ stops \in 0 .. MaxStops
        /\ item \in [Prompts -> ItemRow] /\ sends \in [Prompts -> Nat]
    BY <2>1, Limits, SMT DEF Init, SessionStatus
  <2>5. /\ stage \in [Workers -> Stages]
        /\ current \in [Workers -> Prompts \cup {Nothing}]
        /\ closer \in [Closers -> {"none", "selected", "closing"}]
    BY DEF Init, Stages
  <2>. QED  BY <2>2, <2>3, <2>4, <2>5 DEF Typed
<1>2. \A m \in Prompts : item[m] = NoItem
  BY DEF Init
<1>3. InFlight = {} /\ Queued = {}
  BY <1>2, SMT DEF InFlight, Queued, NoItem
<1>4. WorkerInv /\ ArrivalInv
  BY <1>2, SMT DEF Init, WorkerInv, ArrivalInv, NoItem
<1>5. ItemInv /\ SenderInv
  BY <1>2, SMT DEF Init, ItemInv, SenderInv, Sender, NoItem, Waiting
<1>6. FlightInv /\ OrderInv /\ AloneInv
  BY <1>3, SMT DEF Init, FlightInv, OrderInv, AloneInv, Closing
<1>. QED  BY <1>1, <1>4, <1>5, <1>6 DEF IInv

\* The worker goes away and leaves the rows as they are: its process stopped, or what it
\* wanted to write no longer applies.
LEMMA LeaveInv ==
    ASSUME IInv, NEW w \in Workers, Leave(w), stops' \in 0 .. MaxStops,
           UNCHANGED <<sessionVars, item, arrival, closer, sends, overlapped>>
    PROVE  IInv'
<1>. UNCHANGED <<session, closing, item, arrival, closer, sends, overlapped>>
  BY DEF sessionVars
<1>1. /\ stage' = [stage EXCEPT ![w] = "idle"]
      /\ current' = [current EXCEPT ![w] = Nothing]
      /\ Typed
  BY DEF Leave, IInv
<1>2. Typed'
  BY <1>1 DEF Typed, Stages
<1>3. \A v \in Workers : \/ v = w /\ stage'[v] = "idle" /\ current'[v] = Nothing
                         \/ stage'[v] = stage[v] /\ current'[v] = current[v]
  BY <1>1 DEF Typed
<1>4. WorkerInv' /\ ArrivalInv'
  BY <1>3, SMT DEF IInv, WorkerInv, ArrivalInv
<1>5. ItemInv'
  BY <1>3, MailboxAssumption, SMT DEF IInv, ItemInv, Waiting
<1>6. SenderInv'
  BY <1>3, SMT DEF IInv, SenderInv, Sender
<1>7. FlightInv' /\ OrderInv'
  BY DEF IInv, FlightInv, OrderInv, InFlight
<1>8. AloneInv'
  BY <1>3, SMT DEF IInv, AloneInv, Closing, Queued, InFlight
<1>. QED  BY <1>2, <1>4, <1>5, <1>6, <1>7, <1>8 DEF IInv

\* The worker writes the row of its delivery in flight and leaves: the row stays in flight
\* or is settled, and only a delivery in flight makes the session busy.
LEMMA WriteInv ==
    ASSUME IInv, NEW w \in Workers, stage[w] # "idle", Leave(w), NEW r \in ItemRow,
           item[current[w]].status = "sending",
           item' = [item EXCEPT ![current[w]] = r],
           r.accepted = item[current[w]].accepted,
           r.status = "sending" \/ r.status \in Settled,
           r.status = "sending" => r.attempts <= MaxAttempts,
           session' \in {"idle", "busy", "failed"},
           session' = "busy" => r.status = "sending",
           UNCHANGED <<closing, arrival, closer, sends, stops, overlapped>>
    PROVE  IInv'
<1>. DEFINE m == current[w]
<1>1. /\ stage' = [stage EXCEPT ![w] = "idle"]
      /\ current' = [current EXCEPT ![w] = Nothing]
      /\ Typed
      /\ m \in Prompts
  BY MailboxAssumption DEF Leave, IInv, Typed, WorkerInv
<1>. HIDE DEF m
<1>2. Typed'
  BY <1>1 DEF Typed, Stages, SessionStatus
<1>3. \A v \in Workers : \/ v = w /\ stage'[v] = "idle" /\ current'[v] = Nothing
                         \/ v # w /\ stage'[v] = stage[v] /\ current'[v] = current[v]
  BY <1>1 DEF Typed
<1>4. \A n \in Prompts : \/ n = m /\ item'[n] = r /\ item[n].status = "sending"
                              /\ r.accepted = item[n].accepted
                         \/ n # m /\ item'[n] = item[n]
  BY <1>1 DEF Typed, m
<1>5. WorkerInv'
  BY <1>3 DEF IInv, WorkerInv
<1>6. \A i \in DOMAIN arrival : arrival[i] \in Prompts
  BY <1>1, SMT DEF Typed
<1>7. ArrivalInv'
  BY <1>4, <1>6, SMT DEF IInv, ArrivalInv, Settled
<1>8. ItemInv'
  BY <1>3, <1>4, MailboxAssumption, SMT DEF IInv, ItemInv, Waiting, Settled
<1>9. SenderInv'
  <2>1. \A v \in Workers : stage[v] # "idle" => current[v] \in Prompts
    BY <1>1 DEF IInv, Typed, WorkerInv
  <2>. QED  BY <1>3, <1>4, <2>1, SMT DEF IInv, SenderInv, Sender
<1>10. FlightInv'
  BY <1>4 DEF IInv, FlightInv, InFlight
<1>11. OrderInv'
  BY <1>4, <1>6, SMT DEF IInv, OrderInv, Settled
<1>12. AloneInv'
  <2>1. m \in InFlight /\ (r.status = "sending" => m \in InFlight') /\ Queued' = Queued
    BY <1>1, <1>4 DEF InFlight, Queued, m, Settled
  <2>2. SUFFICES ASSUME ~overlapped PROVE AloneInv'
    BY DEF AloneInv
  <2>3. Closing = {} /\ Closing' = {}
    BY <2>1, <2>2 DEF IInv, AloneInv, Closing
  <2>4. \A v \in Workers : stage'[v] = "idle"
    BY <1>3, <2>2 DEF IInv, AloneInv
  <2>. QED  BY <2>1, <2>3, <2>4 DEF AloneInv
<1>. QED  BY <1>2, <1>5, <1>7, <1>8, <1>9, <1>10, <1>11, <1>12 DEF IInv

LEMMA EnqueueInv ==
    ASSUME IInv, NEW m \in Prompts, EnqueuePrompt(m)
    PROVE  IInv'
<1>. UNCHANGED <<session, closing, stage, current, closer, sends, stops, overlapped>>
  BY DEF EnqueuePrompt, sessionVars, workerVars
<1>1. /\ Typed
      /\ item' = [item EXCEPT ![m].status = "queued"]
      /\ arrival' = Append(arrival, m)
      /\ item[m].status = "absent"
      /\ session \in {"idle", "busy"}
  BY DEF EnqueuePrompt, AcceptsPrompts, IInv
<1>2. Typed'
  <2>1. arrival' \in Seq(Prompts)
    BY <1>1, SMT DEF Typed
  <2>2. item' \in [Prompts -> ItemRow]
    BY <1>1, ZenonT(40) DEF Typed, ItemRow, ItemStatus
  <2>. QED  BY <1>1, <2>1, <2>2 DEF Typed
<1>3. \A n \in Prompts : \/ n = m /\ item'[n].status = "queued"
                              /\ item'[n].attempts = item[n].attempts
                              /\ item'[n].accepted = item[n].accepted
                         \/ n # m /\ item'[n] = item[n]
  BY <1>1 DEF Typed, ItemRow
<1>4. /\ DOMAIN arrival' = 1 .. Len(arrival) + 1 /\ DOMAIN arrival = 1 .. Len(arrival)
      /\ Len(arrival) \in Nat
      /\ \A i \in DOMAIN arrival : arrival'[i] = arrival[i] /\ arrival[i] \in Prompts
      /\ arrival'[Len(arrival) + 1] = m
  BY <1>1, SMT DEF Typed
<1>5. \A i \in DOMAIN arrival : arrival[i] # m
  BY <1>1 DEF IInv, ArrivalInv
<1>6. WorkerInv'
  BY DEF IInv, WorkerInv
<1>7. ArrivalInv'
  <2>1. ASSUME NEW i \in DOMAIN arrival', NEW j \in DOMAIN arrival', arrival'[i] = arrival'[j]
        PROVE  i = j
    BY <1>4, <1>5, <2>1, SMT DEF IInv, ArrivalInv
  <2>2. ASSUME NEW n \in Prompts, item'[n].status # "absent"
        PROVE  \E i \in DOMAIN arrival' : arrival'[i] = n
    <3>1. CASE n = m
      BY <1>4, <3>1, SMT
    <3>2. CASE n # m
      <4>1. PICK i \in DOMAIN arrival : arrival[i] = n
        BY <1>3, <2>2, <3>2 DEF IInv, ArrivalInv
      <4>. QED  BY <1>4, <4>1, SMT
    <3>. QED  BY <3>1, <3>2
  <2>3. ASSUME NEW i \in DOMAIN arrival' PROVE item'[arrival'[i]].status # "absent"
    BY <1>3, <1>4, SMT DEF IInv, ArrivalInv
  <2>. QED  BY <2>1, <2>2, <2>3 DEF ArrivalInv
<1>8. ItemInv'
  BY <1>1, <1>3 DEF IInv, ItemInv, Waiting
<1>9. SenderInv'
  <2>1. \A v \in Workers : stage[v] # "idle" => current[v] \in Prompts
    BY <1>1 DEF IInv, Typed, WorkerInv
  <2>. QED  BY <1>3, <2>1, SMT DEF IInv, SenderInv, Sender
<1>10. InFlight' = InFlight
  BY <1>1, <1>3 DEF InFlight
<1>11. FlightInv'
  BY <1>10 DEF IInv, FlightInv
<1>12. OrderInv'
  <2>1. SUFFICES ASSUME NEW i \in DOMAIN arrival', NEW j \in DOMAIN arrival', i < j,
                        item'[arrival'[j]].status # "queued"
                 PROVE  item'[arrival'[i]].status \in Settled
    BY DEF OrderInv
  <2>2. i \in DOMAIN arrival /\ j \in DOMAIN arrival
    BY <1>3, <1>4, <2>1, SMT
  <2>. QED  BY <1>3, <1>4, <1>5, <2>1, <2>2, SMT DEF IInv, OrderInv
<1>13. AloneInv'
  <2>1. Closing' = Closing
    BY DEF Closing
  <2>2. \A v \in Workers : stage[v] # "idle" => current[v] \in Prompts
    BY <1>1 DEF IInv, Typed, WorkerInv
  <2>3. \A v \in Workers : stage[v] # "idle" /\ item[current[v]].status = "sending" =>
          item'[current[v]].status = "sending"
    BY <1>1, <1>3, <2>2
  <2>. QED  BY <1>1, <1>10, <2>1, <2>3 DEF IInv, AloneInv
<1>. QED  BY <1>2, <1>6, <1>7, <1>8, <1>9, <1>11, <1>12, <1>13 DEF IInv

LEMMA FailStaleInv ==
    ASSUME IInv, NEW w \in Workers, FailStaleSending(w)
    PROVE  IInv'
<1>. UNCHANGED <<closing, arrival, stage, current, closer, sends, stops>>
  BY DEF FailStaleSending, workerVars
<1>1. /\ Typed
      /\ item' = [m \in Prompts |->
           IF m \in StaleItems THEN [item[m] EXCEPT !.status = "failed"] ELSE item[m]]
      /\ session' = IF session \in {"idle", "busy"} THEN "failed" ELSE session
      /\ ~overlapped' => ~overlapped /\ \A v \in Workers : stage[v] = "idle"
  BY DEF FailStaleSending, IInv
<1>2. overlapped' \in BOOLEAN
  BY Zenon DEF FailStaleSending
<1>3. session' \in SessionStatus
  BY <1>1 DEF Typed, SessionStatus
<1>4. \A n \in Prompts : \/ item'[n] = item[n]
                         \/ /\ item[n].status = "sending" /\ item'[n].status = "failed"
                            /\ item'[n] \in ItemRow
                            /\ item'[n].accepted = item[n].accepted
  BY <1>1, ZenonT(40) DEF Typed, ItemRow, ItemStatus, Settled, StaleItems, InFlight
<1>5. item' \in [Prompts -> ItemRow]
  BY <1>1, <1>4, ZenonT(40) DEF Typed
<1>6. Typed'
  BY <1>2, <1>3, <1>5 DEF IInv, Typed
<1>7. \A i \in DOMAIN arrival : arrival[i] \in Prompts
  BY <1>1, SMT DEF Typed
<1>8. \A v \in Workers : stage[v] # "idle" => current[v] \in Prompts
  BY <1>1 DEF IInv, Typed, WorkerInv
<1>9. WorkerInv' /\ ArrivalInv'
  BY <1>4, <1>7, SMT DEF IInv, WorkerInv, ArrivalInv
<1>10. ItemInv'
  BY <1>4 DEF IInv, ItemInv, Waiting
<1>11. SenderInv'
  BY <1>4, <1>8, SMT DEF IInv, SenderInv, Sender
<1>12. InFlight' \subseteq InFlight /\ Queued' = Queued /\ Closing' = Closing
  BY <1>4 DEF InFlight, Queued, Closing
<1>13. FlightInv'
  BY <1>12 DEF IInv, FlightInv
<1>14. OrderInv'
  BY <1>4, <1>7 DEF IInv, OrderInv, Settled
<1>15. AloneInv'
  BY <1>1, <1>12 DEF IInv, AloneInv
<1>. QED  BY <1>6, <1>9, <1>10, <1>11, <1>13, <1>14, <1>15 DEF IInv

\* claim_next takes an accepted delivery that is due.
LEMMA ClaimCaptureInv ==
    ASSUME IInv, NEW w \in Workers, ClaimNext(w), Capturable # {}
    PROVE  IInv'
<1>. DEFINE m == Oldest(Capturable)
<1>. UNCHANGED <<session, closing, item, arrival, closer, sends, stops>>
  BY DEF ClaimNext, sessionVars
<1>1. /\ Typed /\ ArrivalInv
      /\ stage[w] = "idle"
      /\ stage' = [stage EXCEPT ![w] = "begin"]
      /\ current' = [current EXCEPT ![w] = m]
      /\ ~overlapped' => ~overlapped /\ \A v \in Workers : stage[v] = "idle"
  BY DEF ClaimNext, IInv
<1>2. overlapped' \in BOOLEAN
  BY Zenon DEF ClaimNext
<1>3. Capturable \in SUBSET Prompts /\ \A n \in Capturable : item[n].status # "absent"
  BY DEF Capturable, InFlight
<1>4. m \in Capturable
  BY <1>1, <1>3, OldestFacts
<1>5. m \in Prompts /\ item[m].status = "sending" /\ item[m].accepted /\ m \in InFlight
  BY <1>4 DEF Capturable, InFlight
<1>. HIDE DEF m
<1>6. Typed'
  BY <1>1, <1>2, <1>5 DEF Typed, Stages
<1>7. \A v \in Workers : \/ v = w /\ stage'[v] = "begin" /\ current'[v] = m
                         \/ v # w /\ stage'[v] = stage[v] /\ current'[v] = current[v]
  BY <1>1 DEF Typed
<1>8. WorkerInv' /\ ArrivalInv'
  BY <1>5, <1>7, MailboxAssumption, SMT DEF IInv, WorkerInv, ArrivalInv
<1>9. ItemInv'
  BY <1>5, <1>7, SMT DEF IInv, ItemInv, Waiting
<1>10. SenderInv'
  BY <1>5, <1>7, SMT DEF IInv, SenderInv, Sender
<1>11. InFlight' = InFlight /\ Queued' = Queued /\ Closing' = Closing
  BY DEF InFlight, Queued, Closing
<1>12. FlightInv' /\ OrderInv'
  BY <1>11 DEF IInv, FlightInv, OrderInv
<1>13. AloneInv'
  BY <1>1, <1>5, <1>7, <1>11, SMT DEF IInv, AloneInv
<1>. QED  BY <1>6, <1>8, <1>9, <1>10, <1>12, <1>13 DEF IInv

LEMMA ClaimedFacts ==
    ASSUME NEW r \in ItemRow, r.attempts = 0
    PROVE  /\ Claimed(r) \in ItemRow
           /\ Claimed(r).status = "sending" /\ Claimed(r).attempts = 1
           /\ Claimed(r).accepted = r.accepted
<1>1. r.attempts + 1 \in 0 .. MaxAttempts + 1 /\ StaleSeconds \in 0 .. StaleSeconds
  BY Limits, SMT
<1>2. Claimed(r) \in ItemRow
  BY <1>1 DEF Claimed, ItemRow, ItemStatus
<1>3. /\ Claimed(r).status = "sending" /\ Claimed(r).attempts = r.attempts + 1
      /\ Claimed(r).accepted = r.accepted
  BY DEF Claimed, ItemRow
<1>. QED  BY <1>2, <1>3, SMT

\* claim_next takes the oldest prompt of an idle session with nothing in flight.
LEMMA ClaimPromptInv ==
    ASSUME IInv, NEW w \in Workers, ClaimNext(w), Capturable = {}
    PROVE  IInv'
<1>. DEFINE m == NextPrompt
<1>. UNCHANGED <<session, closing, arrival, closer, sends, stops>>
  BY DEF ClaimNext, sessionVars
<1>1. /\ Typed /\ ArrivalInv
      /\ stage[w] = "idle"
      /\ stage' = [stage EXCEPT ![w] = "begin"]
      /\ current' = [current EXCEPT ![w] = m]
      /\ ~overlapped' => ~overlapped /\ \A v \in Workers : stage[v] = "idle"
      /\ session = "idle" /\ InFlight = {} /\ Queued # {}
      /\ item' = [item EXCEPT ![m] = Claimed(item[m])]
  BY DEF ClaimNext, CanSend, IInv
<1>2. overlapped' \in BOOLEAN
  BY Zenon DEF ClaimNext
<1>3. Queued \in SUBSET Prompts /\ \A n \in Queued : item[n].status # "absent"
  BY DEF Queued
<1>4. m \in Queued /\ \A n \in Queued : Position(m) <= Position(n)
  BY <1>1, <1>3, OldestFacts DEF NextPrompt
<1>5. m \in Prompts /\ item[m].status = "queued"
  BY <1>4 DEF Queued
<1>6. /\ ~item[m].accepted /\ item[m].attempts = 0 /\ sends[m] = 0
      /\ \A v \in Workers : current[v] # m
  BY <1>5 DEF IInv, ItemInv, Waiting
<1>. HIDE DEF m
<1>7. /\ item'[m] \in ItemRow /\ item'[m].status = "sending" /\ item'[m].attempts = 1
      /\ item'[m].accepted = item[m].accepted
      /\ \A n \in Prompts : n # m => item'[n] = item[n]
  <2>1. item[m] \in ItemRow
    BY <1>1, <1>5 DEF Typed
  <2>. QED  BY <1>1, <1>5, <1>6, <2>1, ClaimedFacts DEF Typed
<1>8. item' \in [Prompts -> ItemRow]
  BY <1>1, <1>5, <1>7 DEF Typed
<1>9. Typed'
  BY <1>1, <1>2, <1>5, <1>8 DEF Typed, Stages
<1>10. \A v \in Workers : \/ v = w /\ stage'[v] = "begin" /\ current'[v] = m
                          \/ v # w /\ stage'[v] = stage[v] /\ current'[v] = current[v]
  BY <1>1 DEF Typed
<1>11. WorkerInv'
  BY <1>5, <1>10, MailboxAssumption DEF IInv, WorkerInv
<1>12. \A i \in DOMAIN arrival : arrival[i] \in Prompts
  BY <1>1, SMT DEF Typed
<1>13. ArrivalInv'
  BY <1>5, <1>7, <1>12 DEF IInv, ArrivalInv
<1>14. ItemInv'
  <2>1. \A n \in Prompts : n # m => \A v \in Workers : current[v] # n => current'[v] # n
    BY <1>10
  <2>. QED  BY <1>6, <1>7, <2>1, Limits DEF IInv, ItemInv, Waiting
<1>15. \A v \in Workers : stage[v] # "idle" => current[v] \in Prompts
  BY <1>1 DEF IInv, Typed, WorkerInv
<1>16. SenderInv'
  BY <1>6, <1>7, <1>10, <1>15, SMT DEF IInv, SenderInv, Sender
<1>17. InFlight' = {m}
  <2>1. \A n \in Prompts : item[n].status # "sending"
    BY <1>1 DEF InFlight
  <2>. QED  BY <1>5, <1>7, <2>1 DEF InFlight
<1>18. FlightInv'
  BY <1>17 DEF FlightInv
<1>19. OrderInv'
  <2>1. SUFFICES ASSUME NEW i \in DOMAIN arrival, NEW j \in DOMAIN arrival, i < j,
                        item'[arrival[j]].status # "queued"
                 PROVE  item'[arrival[i]].status \in Settled
    BY DEF OrderInv
  <2>2. CASE arrival[j] # m
    <3>1. item[arrival[i]].status \in Settled
      BY <1>7, <1>12, <2>1, <2>2 DEF IInv, OrderInv
    <3>2. arrival[i] # m
      BY <1>5, <3>1 DEF Settled
    <3>. QED  BY <1>7, <1>12, <3>1, <3>2
  <2>3. CASE arrival[j] = m
    <3>1. arrival[i] # m /\ arrival[i] \in Prompts /\ item[arrival[i]].status # "absent"
      BY <1>1, <1>12, <2>1, <2>3, SMT DEF ArrivalInv, Typed
    <3>2. /\ arrival[Position(m)] = m /\ Position(m) \in DOMAIN arrival
          /\ arrival[Position(arrival[i])] = arrival[i] /\ Position(arrival[i]) \in DOMAIN arrival
      BY <1>1, <1>5, <3>1, PositionFacts
    <3>3. Position(m) = j /\ Position(arrival[i]) = i
      BY <1>1, <2>3, <3>2 DEF ArrivalInv
    <3>4. i \in Nat /\ j \in Nat
      BY <1>1, SMT DEF Typed
    <3>5. arrival[i] \notin Queued
      BY <1>4, <2>1, <3>3, <3>4, SMT
    <3>6. arrival[i] \notin InFlight /\ item[arrival[i]].status \in ItemStatus
      BY <1>1, <3>1 DEF Typed, ItemRow
    <3>. QED  BY <1>7, <3>1, <3>5, <3>6 DEF Queued, InFlight, ItemStatus
  <2>. QED  BY <2>2, <2>3
<1>20. AloneInv'
  <2>1. SUFFICES ASSUME ~overlapped' PROVE AloneInv'
    BY DEF AloneInv
  <2>2. Closing' = Closing /\ Closing = {}
    BY <1>1, <2>1 DEF IInv, AloneInv, Closing
  <2>. QED  BY <1>1, <1>7, <1>10, <1>17, <2>1, <2>2, SMT DEF AloneInv
<1>. QED  BY <1>9, <1>11, <1>13, <1>14, <1>16, <1>18, <1>19, <1>20 DEF IInv

LEMMA HasItem ==
    ASSUME IInv, NEW w \in Workers, stage[w] # "idle"
    PROVE  /\ current[w] \in Prompts /\ ~Waiting(current[w])
           /\ ~overlapped => /\ current[w] \in InFlight
                             /\ Closing = {}
                             /\ session \notin {"closing", "closed"}
                             /\ \A v \in Workers : stage[v] # "idle" => v = w
<1>1. current[w] \in Prompts
  BY DEF IInv, Typed, WorkerInv
<1>2. ~Waiting(current[w])
  BY <1>1 DEF IInv, ItemInv
<1>3. ~overlapped => current[w] \in InFlight
  BY <1>1 DEF IInv, AloneInv, InFlight
<1>. QED  BY <1>1, <1>2, <1>3 DEF IInv, AloneInv

\* The worker goes on without writing its item.
LEMMA StepInv ==
    ASSUME IInv, NEW w \in Workers, stage[w] # "idle", NEW s \in Stages \ {"idle", "begin"},
           Step(w, s), session' \in {session, "busy"},
           s \in {"accept", "refuse"} => FALSE,
           s = "send" => stage[w] = "begin" /\ ~item[current[w]].accepted,
           UNCHANGED <<closing, item, arrival, closer, sends, stops, overlapped>>
    PROVE  IInv'
<1>1. /\ Typed /\ current' = current /\ stage' = [stage EXCEPT ![w] = s]
  BY DEF Step, IInv
<1>2. Typed'
  BY <1>1 DEF Typed, SessionStatus
<1>3. \A v \in Workers : \/ v = w /\ stage'[v] = s
                         \/ v # w /\ stage'[v] = stage[v]
  BY <1>1 DEF Typed
<1>4. WorkerInv' /\ ArrivalInv' /\ ItemInv'
  BY <1>1, <1>3 DEF IInv, WorkerInv, ArrivalInv, ItemInv, Waiting
<1>5. SenderInv'
  BY <1>1, <1>3, SMT DEF IInv, SenderInv, Sender
<1>6. InFlight' = InFlight /\ Queued' = Queued /\ Closing' = Closing
  BY DEF InFlight, Queued, Closing
<1>7. FlightInv' /\ OrderInv'
  BY <1>6 DEF IInv, FlightInv, OrderInv
<1>8. AloneInv'
  BY <1>1, <1>3, <1>6, HasItem DEF IInv, AloneInv
<1>. QED  BY <1>2, <1>4, <1>5, <1>7, <1>8 DEF IInv

LEMMA SendInv ==
    ASSUME IInv, NEW w \in Workers, Send(w)
    PROVE  IInv'
<1>. DEFINE m == current[w]
<1>. UNCHANGED <<session, closing, item, arrival, closer, stops, overlapped>>
  BY DEF Send, sessionVars
<1>1. PICK s \in {"accept", "refuse"} : Step(w, s)
  BY DEF Send
<1>2. /\ Typed /\ current' = current /\ stage' = [stage EXCEPT ![w] = s]
      /\ stage[w] = "send"
      /\ sends' = [sends EXCEPT ![m] = @ + 1]
  BY <1>1 DEF Step, Send, IInv
<1>3. m \in Prompts /\ ~Waiting(m)
  BY <1>2, HasItem
<1>4. ~item[m].accepted /\ sends[m] = 0
  BY <1>2 DEF IInv, SenderInv, Sender
<1>. HIDE DEF m
<1>5. Typed'
  BY <1>2, <1>3, SMT DEF Typed, Stages
<1>6. \A v \in Workers : \/ v = w /\ stage'[v] = s
                         \/ v # w /\ stage'[v] = stage[v]
  BY <1>2 DEF Typed
<1>7. sends'[m] = 1 /\ \A n \in Prompts : n # m => sends'[n] = sends[n]
  BY <1>2, <1>3, <1>4, SMT DEF Typed
<1>8. WorkerInv' /\ ArrivalInv'
  BY <1>2, <1>6 DEF IInv, WorkerInv, ArrivalInv
<1>9. ItemInv'
  BY <1>2, <1>3, <1>7, SMT DEF IInv, ItemInv, Waiting
<1>10. SenderInv'
  <2>1. \A v \in Workers : v # w /\ Sender(v) => current[v] # m
    BY <1>2, <1>4 DEF IInv, SenderInv, Sender, m
  <2>2. \A v \in Workers : stage[v] # "idle" => current[v] \in Prompts
    BY HasItem
  <2>3. \A v \in Workers : v # w => (Sender(v)' <=> Sender(v))
    BY <1>2, <1>6 DEF Sender
  <2>4. Sender(w)
    BY <1>2, <1>4 DEF Sender, m
  <2>5. ASSUME NEW v \in Workers
        PROVE  /\ stage'[v] \in {"send", "accept", "refuse"} => ~item[current[v]].accepted
               /\ Sender(v)' /\ stage'[v] \in {"begin", "send"} => sends'[current[v]] = 0
    <3>1. CASE v = w
      BY <1>4, <1>6, <3>1 DEF m
    <3>2. CASE v # w
      BY <1>6, <1>7, <2>1, <2>2, <2>3, <3>2 DEF IInv, SenderInv, Sender
    <3>. QED  BY <3>1, <3>2
  <2>6. ASSUME NEW u \in Workers, NEW v \in Workers, Sender(u)', Sender(v)', current[u] = current[v]
        PROVE  u = v
    BY <2>3, <2>4, <2>6 DEF IInv, SenderInv
  <2>. QED  BY <1>2, <2>5, <2>6 DEF SenderInv
<1>11. InFlight' = InFlight /\ Queued' = Queued /\ Closing' = Closing
  BY DEF InFlight, Queued, Closing
<1>12. FlightInv' /\ OrderInv'
  BY <1>11 DEF IInv, FlightInv, OrderInv
<1>13. AloneInv'
  BY <1>2, <1>6, <1>11, HasItem DEF IInv, AloneInv
<1>. QED  BY <1>5, <1>8, <1>9, <1>10, <1>12, <1>13 DEF IInv

LEMMA MarkAcceptedInv ==
    ASSUME IInv, NEW w \in Workers, MarkAccepted(w)
    PROVE  IInv'
<1>. DEFINE m == current[w]
<1>. UNCHANGED <<session, closing, arrival, closer, sends, stops, overlapped>>
  BY DEF MarkAccepted, sessionVars
<1>1. /\ Typed /\ current' = current /\ stage' = [stage EXCEPT ![w] = "capture"]
      /\ stage[w] = "accept"
      /\ item' = [item EXCEPT ![m] =
            IF item[m].status = "sending" /\ ~item[m].accepted
            THEN [item[m] EXCEPT !.accepted = TRUE, !.wait = 0, !.deadline = CaptureSeconds]
            ELSE item[m]]
  BY DEF Step, MarkAccepted, IInv
<1>2. m \in Prompts /\ ~Waiting(m)
  BY <1>1, HasItem
<1>3. item[m] \in ItemRow
  BY <1>1, <1>2 DEF Typed
<1>. HIDE DEF m
<1>4. /\ item'[m] \in ItemRow /\ item'[m].status = item[m].status
      /\ item'[m].attempts = item[m].attempts
      /\ \A n \in Prompts : n # m => item'[n] = item[n]
  <2>1. 0 \in 0 .. RetrySeconds /\ CaptureSeconds \in 0 .. CaptureSeconds
    BY Limits, SMT
  <2>. QED  BY <1>1, <1>2, <1>3, <2>1 DEF Typed, ItemRow
<1>5. item' \in [Prompts -> ItemRow]
  BY <1>1, <1>2, <1>4 DEF Typed
<1>6. Typed'
  BY <1>1, <1>5 DEF Typed, Stages
<1>7. \A v \in Workers : \/ v = w /\ stage'[v] = "capture"
                         \/ v # w /\ stage'[v] = stage[v]
  BY <1>1 DEF Typed
<1>8. \A i \in DOMAIN arrival : arrival[i] \in Prompts
  BY <1>1, SMT DEF Typed
<1>9. \A n \in Prompts : item'[n].status = item[n].status
  BY <1>4
<1>10. WorkerInv' /\ ArrivalInv'
  BY <1>1, <1>7, <1>8, <1>9, SMT DEF IInv, WorkerInv, ArrivalInv
<1>11. ItemInv'
  BY <1>1, <1>2, <1>4, SMT DEF IInv, ItemInv, Waiting
<1>12. SenderInv'
  <2>1. \A v \in Workers : v # w /\ Sender(v) => current[v] # m
    BY <1>1 DEF IInv, SenderInv, Sender, m
  <2>2. \A v \in Workers : stage[v] # "idle" => current[v] \in Prompts
    BY HasItem
  <2>3. \A v \in Workers : v # w /\ Sender(v) => item'[current[v]] = item[current[v]]
    BY <1>4, <2>1, <2>2 DEF Sender
  <2>4. item[m].accepted => item'[m] = item[m]
    BY <1>1, <1>2 DEF Typed
  <2>5. \A v \in Workers : Sender(v)' => v # w /\ Sender(v)
    BY <1>1, <1>4, <1>7, <2>2, <2>4, SMT DEF Sender
  <2>6. ASSUME NEW v \in Workers, stage'[v] \in {"send", "accept", "refuse"}
        PROVE  ~item'[current[v]].accepted
    <3>1. v # w /\ stage[v] \in {"send", "accept", "refuse"}
      BY <1>7, <2>6
    <3>2. Sender(v)
      BY <3>1 DEF IInv, SenderInv, Sender
    <3>. QED  BY <2>3, <3>1, <3>2 DEF Sender
  <2>7. ASSUME NEW v \in Workers, Sender(v)', stage'[v] \in {"begin", "send"}
        PROVE  sends[current[v]] = 0
    BY <1>7, <2>5, <2>7 DEF IInv, SenderInv
  <2>8. ASSUME NEW u \in Workers, NEW v \in Workers, Sender(u)', Sender(v)', current[u] = current[v]
        PROVE  u = v
    BY <2>5, <2>8 DEF IInv, SenderInv
  <2>. QED  BY <1>1, <2>6, <2>7, <2>8 DEF SenderInv
<1>13. InFlight' = InFlight /\ Queued' = Queued /\ Closing' = Closing
  BY <1>9 DEF InFlight, Queued, Closing
<1>14. FlightInv' /\ OrderInv'
  BY <1>8, <1>9, <1>13 DEF IInv, FlightInv, OrderInv
<1>15. AloneInv'
  BY <1>1, <1>7, <1>9, <1>13, HasItem, SMT DEF IInv, AloneInv
<1>. QED  BY <1>6, <1>10, <1>11, <1>12, <1>14, <1>15 DEF IInv

LEMMA FailDeliveryInv ==
    ASSUME IInv, NEW w \in Workers, stage[w] # "idle", FailDelivery(w)
    PROVE  IInv'
<1>. UNCHANGED <<closing, arrival, closer, sends, stops, overlapped>> /\ Leave(w)
  BY DEF FailDelivery
<1>1. current[w] \in Prompts /\ Typed
  BY HasItem DEF IInv
<1>2. CASE item[current[w]].status = "sending"
  <2>. DEFINE r == [item[current[w]] EXCEPT !.status = "failed"]
  <2>1. item[current[w]] \in ItemRow
    BY <1>1 DEF Typed
  <2>2. r \in ItemRow /\ r.status = "failed" /\ r.accepted = item[current[w]].accepted
    BY <2>1 DEF ItemRow, ItemStatus, Settled
  <2>3. item' = [item EXCEPT ![current[w]] = r] /\ session' = "failed"
    BY <1>2 DEF FailDelivery
  <2>. HIDE DEF r
  <2>. QED  BY <1>2, <2>2, <2>3, WriteInv DEF Settled
<1>3. CASE item[current[w]].status # "sending"
  <2>1. UNCHANGED <<sessionVars, item>>
    BY <1>3 DEF FailDelivery, sessionVars
  <2>2. stops' \in 0 .. MaxStops
    BY <1>1 DEF Typed
  <2>. QED  BY <2>1, <2>2, LeaveInv
<1>. QED  BY <1>2, <1>3

LEMMA CaptureOutcomeInv ==
    ASSUME IInv, NEW w \in Workers, Complete(w) \/ DeferPending(w) \/ DeferAccepted(w)
    PROVE  IInv'
<1>. UNCHANGED <<closing, arrival, closer, sends, stops, overlapped>> /\ Leave(w)
  BY DEF Complete, DeferPending, DeferAccepted
<1>1. stage[w] # "idle"
  BY DEF Complete, DeferPending, DeferAccepted
<1>2. current[w] \in Prompts /\ Typed
  BY <1>1, HasItem DEF IInv
<1>3. CASE Accepted(current[w])
  <2>. DEFINE m == current[w]
              row == item[m]
  <2>1. row \in ItemRow /\ row.status = "sending" /\ row.attempts <= MaxAttempts
    BY <1>2, <1>3 DEF Typed, Accepted, IInv, ItemInv
  <2>. HIDE DEF row
  <2>2. ASSUME Complete(w) PROVE IInv'
    <3>. DEFINE r == [row EXCEPT !.status = "sent"]
    <3>1. r \in ItemRow /\ r.status = "sent" /\ r.accepted = row.accepted
      BY <2>1 DEF ItemRow, ItemStatus, Settled
    <3>2. item' = [item EXCEPT ![m] = r] /\ session' = "idle"
      BY <1>3, <2>2 DEF Complete, row
    <3>. HIDE DEF r
    <3>. QED  BY <1>1, <2>1, <3>1, <3>2, WriteInv DEF Settled, row
  <2>3. ASSUME DeferPending(w) PROVE IInv'
    <3>. DEFINE r == [row EXCEPT !.wait = RetrySeconds]
    <3>1. /\ r \in ItemRow /\ r.status = "sending" /\ r.accepted = row.accepted
          /\ r.attempts = row.attempts
      BY <2>1, Limits, SMT DEF ItemRow
    <3>2. item' = [item EXCEPT ![m] = r] /\ session' = "busy"
      BY <1>3, <2>3 DEF DeferPending, row
    <3>. HIDE DEF r
    <3>. QED  BY <1>1, <2>1, <3>1, <3>2, WriteInv DEF row
  <2>4. ASSUME DeferAccepted(w) PROVE IInv'
    <3>. DEFINE n == row.attempts + 1
                q == [row EXCEPT !.attempts = n]
                failed == [q EXCEPT !.status = "failed"]
                waits == [q EXCEPT !.wait = RetrySeconds]
    <3>1. n \in 0 .. MaxAttempts + 1 /\ RetrySeconds \in 0 .. RetrySeconds
      BY <2>1, Limits, SMT DEF ItemRow
    <3>. HIDE DEF n
    <3>2. /\ failed \in ItemRow /\ failed.status = "failed" /\ failed.accepted = row.accepted
      BY <2>1, <3>1 DEF ItemRow, ItemStatus, Settled
    <3>3. /\ waits \in ItemRow /\ waits.status = "sending" /\ waits.accepted = row.accepted
          /\ waits.attempts = n
      BY <2>1, <3>1 DEF ItemRow
    <3>4. \/ n >= MaxAttempts /\ item' = [item EXCEPT ![m] = failed] /\ session' = "failed"
          \/ ~(n >= MaxAttempts) /\ item' = [item EXCEPT ![m] = waits] /\ session' = "busy"
      BY <1>3, <2>4 DEF DeferAccepted, row, n
    <3>5. ~(n >= MaxAttempts) => n <= MaxAttempts
      BY <3>1, Limits, SMT
    <3>. HIDE DEF q, failed, waits
    <3>6. CASE item' = [item EXCEPT ![m] = failed] /\ session' = "failed"
      BY <1>1, <2>1, <3>2, <3>6, WriteInv DEF Settled, row
    <3>7. CASE ~(n >= MaxAttempts) /\ item' = [item EXCEPT ![m] = waits] /\ session' = "busy"
      BY <1>1, <2>1, <3>3, <3>5, <3>7, WriteInv DEF row
    <3>. QED  BY <3>4, <3>6, <3>7
  <2>. QED  BY <2>2, <2>3, <2>4
<1>4. CASE ~Accepted(current[w])
  <2>1. UNCHANGED <<sessionVars, item>>
    BY <1>4 DEF Complete, DeferPending, DeferAccepted, sessionVars
  <2>2. stops' \in 0 .. MaxStops
    BY <1>2 DEF Typed
  <2>. QED  BY <2>1, <2>2, LeaveInv
<1>. QED  BY <1>3, <1>4

----------------------------------------------------------------------------
\* The closers.

\* A caller considers the session, drops it or disappears.
LEMMA CloserInv ==
    ASSUME IInv, closer' \in [Closers -> {"none", "selected", "closing"}],
           Closing' \subseteq Closing, stops' \in 0 .. MaxStops,
           UNCHANGED <<sessionVars, item, arrival, workerVars, sends, overlapped>>
    PROVE  IInv'
<1>. UNCHANGED <<session, closing, item, arrival, stage, current, sends, overlapped>>
  BY DEF sessionVars, workerVars
<1>1. Typed'
  BY DEF IInv, Typed
<1>2. WorkerInv' /\ ArrivalInv' /\ ItemInv' /\ OrderInv'
  BY SMT DEF IInv, WorkerInv, ArrivalInv, ItemInv, Waiting, OrderInv
<1>3. SenderInv'
  BY DEF IInv, SenderInv, Sender
<1>4. InFlight' = InFlight /\ Queued' = Queued
  BY DEF InFlight, Queued
<1>5. FlightInv' /\ AloneInv'
  BY <1>4, SMT DEF IInv, FlightInv, AloneInv
<1>. QED  BY <1>1, <1>2, <1>3, <1>5 DEF IInv

\* A close ends, or an abandoned one is recovered: the session leaves "closing" for a
\* status in which it takes no prompts.
LEMMA RecordCloseInv ==
    ASSUME IInv, \/ \E c \in Closers, s \in {"closed", "failed"} : RecordClose(c, s)
                 \/ RecoverStaleClosing
    PROVE  IInv'
<1>. UNCHANGED <<closing, item, arrival, stage, current, sends, stops, overlapped>>
  BY DEF RecordClose, RecoverStaleClosing, workerVars
<1>1. Typed'
  BY DEF RecordClose, RecoverStaleClosing, IInv, Typed, SessionStatus
<1>2. WorkerInv' /\ ArrivalInv' /\ ItemInv' /\ OrderInv'
  BY DEF IInv, WorkerInv, ArrivalInv, ItemInv, Waiting, OrderInv
<1>3. SenderInv'
  BY DEF IInv, SenderInv, Sender
<1>4. InFlight' = InFlight /\ Queued' = Queued
  BY DEF InFlight, Queued
<1>5. FlightInv'
  BY <1>4 DEF IInv, FlightInv
<1>6. AloneInv'
  <2>1. SUFFICES ASSUME ~overlapped PROVE AloneInv'
    BY DEF AloneInv
  <2>2. CASE RecoverStaleClosing
    <3>1. Closing' = Closing /\ session' = "failed"
      BY <2>2 DEF RecoverStaleClosing, Closing
    <3>. QED  BY <1>4, <2>1, <3>1 DEF IInv, AloneInv
  <2>3. ASSUME NEW c \in Closers, NEW s \in {"closed", "failed"}, RecordClose(c, s)
        PROVE  AloneInv'
    <3>1. c \in Closing /\ session' = s /\ Closing' = Closing \ {c}
      BY <2>3 DEF RecordClose, Closing, IInv, Typed
    <3>2. Closing' = {} /\ Queued = {} /\ InFlight = {}
      BY <2>1, <3>1 DEF IInv, AloneInv
    <3>. QED  BY <1>4, <2>1, <3>1, <3>2 DEF IInv, AloneInv
  <2>. QED  BY <2>2, <2>3
<1>. QED  BY <1>1, <1>2, <1>3, <1>5, <1>6 DEF IInv

LEMMA ClaimCloseInv ==
    ASSUME IInv, NEW c \in Closers, NEW force \in BOOLEAN, ClaimClose(c, force)
    PROVE  IInv'
<1>. UNCHANGED <<arrival, stage, current, sends, stops>>
  BY DEF ClaimClose, workerVars
<1>1. /\ Typed
      /\ session' = "closing" /\ closing' = ClosingSeconds
      /\ InFlight = {} /\ (force \/ Queued = {})
      /\ item' = [m \in Prompts |->
           IF force /\ m \in Queued THEN [item[m] EXCEPT !.status = "cancelled"] ELSE item[m]]
      /\ closer' = [closer EXCEPT ![c] = "closing"]
      /\ ~overlapped' => ~overlapped /\ Closing = {}
  BY DEF ClaimClose, Closable, IInv
<1>2. overlapped' \in BOOLEAN
  BY Zenon DEF ClaimClose
<1>3. \A n \in Prompts : \/ item'[n] = item[n]
                         \/ /\ n \in Queued /\ item'[n].status = "cancelled"
                            /\ item'[n] \in ItemRow
                            /\ item'[n].accepted = item[n].accepted
  BY <1>1, ZenonT(40) DEF Typed, ItemRow, ItemStatus, Settled
<1>4. item' \in [Prompts -> ItemRow]
  BY <1>1, <1>3 DEF Typed
<1>5. Typed'
  BY <1>1, <1>2, <1>4, Limits, SMT DEF Typed, SessionStatus
<1>6. InFlight' = {} /\ Queued' = {}
  <2>1. ASSUME NEW n \in Prompts PROVE item'[n].status \notin {"sending", "queued"}
    <3>1. item[n].status # "sending"
      BY <1>1 DEF InFlight
    <3>2. CASE n \in Queued
      BY <1>1, <3>2 DEF Typed, ItemRow
    <3>3. CASE n \notin Queued
      BY <1>3, <3>1, <3>3 DEF Queued
    <3>. QED  BY <3>2, <3>3
  <2>. QED  BY <2>1 DEF Queued, InFlight
<1>7. \A i \in DOMAIN arrival : arrival[i] \in Prompts
  BY <1>1, SMT DEF Typed
<1>8. WorkerInv' /\ ArrivalInv'
  BY <1>3, <1>7, SMT DEF IInv, WorkerInv, ArrivalInv, Queued
<1>9. ItemInv'
  BY <1>3 DEF IInv, ItemInv, Waiting
<1>10. \A v \in Workers : stage[v] # "idle" => current[v] \in Prompts
  BY HasItem
<1>11. SenderInv'
  BY <1>3, <1>10 DEF IInv, SenderInv, Sender
<1>12. FlightInv'
  BY <1>6 DEF FlightInv
<1>13. OrderInv'
  <2>1. ASSUME NEW i \in DOMAIN arrival PROVE item'[arrival[i]].status \in Settled
    <3>1. arrival[i] \in Prompts /\ item'[arrival[i]].status \in ItemStatus
      BY <1>4, <1>7 DEF ItemRow
    <3>2. item'[arrival[i]].status # "absent"
      BY <1>8 DEF ArrivalInv
    <3>3. arrival[i] \notin InFlight' /\ arrival[i] \notin Queued'
      BY <1>6
    <3>. QED  BY <3>1, <3>2, <3>3 DEF InFlight, Queued, ItemStatus
  <2>. QED  BY <2>1 DEF OrderInv
<1>14. AloneInv'
  <2>1. SUFFICES ASSUME ~overlapped' PROVE AloneInv'
    BY DEF AloneInv
  <2>2. Closing' = {c}
    BY <1>1, <2>1 DEF Closing, Typed
  <2>3. \A v \in Workers : stage[v] = "idle"
    BY <1>1, <2>1, HasItem
  <2>. QED  BY <1>1, <1>6, <2>2, <2>3 DEF AloneInv
<1>. QED  BY <1>5, <1>8, <1>9, <1>11, <1>12, <1>13, <1>14 DEF IInv

LEMMA TickInv ==
    ASSUME IInv, Tick
    PROVE  IInv'
<1>. UNCHANGED <<session, arrival, stage, current, closer, sends, stops, overlapped>>
  BY DEF Tick, workerVars
<1>1. /\ Typed
      /\ closing' = Countdown(closing)
      /\ item' = [m \in Prompts |-> [item[m] EXCEPT !.wait = Countdown(item[m].wait),
                      !.stale = Countdown(item[m].stale), !.deadline = Countdown(item[m].deadline)]]
  BY DEF Tick, IInv
<1>2. ASSUME NEW n \in Nat, NEW k \in 0 .. n PROVE Countdown(k) \in 0 .. n
  BY SMT DEF Countdown
<1>3. ASSUME NEW n \in Prompts
      PROVE  /\ item'[n] \in ItemRow
             /\ item'[n].status = item[n].status
             /\ item'[n].accepted = item[n].accepted
             /\ item'[n].attempts = item[n].attempts
  <2>1. item[n] \in ItemRow
    BY <1>1 DEF Typed
  <2>2. /\ Countdown(item[n].wait) \in 0 .. RetrySeconds
        /\ Countdown(item[n].stale) \in 0 .. StaleSeconds
        /\ Countdown(item[n].deadline) \in 0 .. CaptureSeconds
    BY <1>2, <2>1, Limits DEF ItemRow
  <2>. QED  BY <1>1, <2>1, <2>2 DEF ItemRow
<1>4. item' \in [Prompts -> ItemRow] /\ closing' \in 0 .. ClosingSeconds
  BY <1>1, <1>2, <1>3, Limits DEF Typed
<1>5. Typed'
  BY <1>1, <1>4 DEF Typed
<1>6. \A i \in DOMAIN arrival : arrival[i] \in Prompts
  BY SMT DEF IInv, Typed
<1>7. \A v \in Workers : stage[v] # "idle" => current[v] \in Prompts
  BY HasItem
<1>8. WorkerInv' /\ ArrivalInv' /\ OrderInv'
  BY <1>3, <1>6, SMT DEF IInv, WorkerInv, ArrivalInv, OrderInv
<1>9. ItemInv'
  BY <1>3 DEF IInv, ItemInv, Waiting
<1>10. SenderInv'
  BY <1>3, <1>7 DEF IInv, SenderInv, Sender
<1>11. InFlight' = InFlight /\ Queued' = Queued /\ Closing' = Closing
  BY <1>3 DEF InFlight, Queued, Closing
<1>12. FlightInv' /\ AloneInv'
  BY <1>3, <1>7, <1>11 DEF IInv, FlightInv, AloneInv
<1>. QED  BY <1>5, <1>8, <1>9, <1>10, <1>12 DEF IInv

----------------------------------------------------------------------------
\* Results.

LEMMA NextInv ==
    ASSUME IInv, [Next]_vars
    PROVE  IInv'
<1>1. ASSUME NEW w \in Workers, Drain(w) PROVE IInv'
  <2>1. CASE FailStaleSending(w)
    BY <2>1, FailStaleInv
  <2>2. CASE ClaimNext(w)
    BY <2>2, ClaimCaptureInv, ClaimPromptInv
  <2>3. CASE Begin(w)
    <3>. DEFINE s == IF item[current[w]].accepted THEN "capture" ELSE "send"
    <3>1. /\ stage[w] = "begin" /\ Step(w, s) /\ session' = "busy"
          /\ UNCHANGED <<closing, item, arrival, closer, sends, stops, overlapped>>
      BY <2>3 DEF Begin
    <3>2. s \in Stages \ {"idle", "begin"} /\ s \notin {"accept", "refuse"}
      BY DEF Stages
    <3>3. s = "send" => ~item[current[w]].accepted
      OBVIOUS
    <3>. HIDE DEF s
    <3>. QED  BY <3>1, <3>2, <3>3, StepInv
  <2>4. CASE Unroutable(w) \/ Refuse(w) \/ Expire(w)
    BY <2>4, FailDeliveryInv DEF Unroutable, Refuse, Expire
  <2>5. CASE Send(w)
    BY <2>5, SendInv
  <2>6. CASE MarkAccepted(w)
    BY <2>6, MarkAcceptedInv
  <2>7. CASE Capture(w)
    <3>1. PICK s \in {"complete", "defer", "expire", "pend"} : Step(w, s)
      BY <2>7 DEF Capture
    <3>2. /\ stage[w] = "capture"
          /\ UNCHANGED <<session, closing, item, arrival, closer, sends, stops, overlapped>>
      BY <2>7 DEF Capture, sessionVars
    <3>3. s \in Stages \ {"idle", "begin"} /\ s \notin {"accept", "refuse", "send"}
      BY DEF Stages
    <3>. QED  BY <3>1, <3>2, <3>3, StepInv
  <2>8. CASE Complete(w) \/ DeferPending(w) \/ DeferAccepted(w)
    BY <2>8, CaptureOutcomeInv
  <2>. QED  BY <1>1, <2>1, <2>2, <2>3, <2>4, <2>5, <2>6, <2>7, <2>8 DEF Drain, SendItem
<1>2. ASSUME NEW w \in Workers, StopWorker(w) PROVE IInv'
  <2>1. stops' \in 0 .. MaxStops
    BY <1>2, Limits, SMT DEF StopWorker, IInv, Typed
  <2>. QED  BY <1>2, <2>1, LeaveInv DEF StopWorker
<1>3. ASSUME NEW c \in Closers, SelectIdle(c) \/ StopCloser(c) \/ PassOver(c) PROVE IInv'
  <2>0. stops \in 0 .. MaxStops
    BY DEF IInv, Typed
  <2>1. stops' \in 0 .. MaxStops
    <3>1. stops' = stops \/ (stops < MaxStops /\ stops' = stops + 1)
      BY <1>3 DEF StopCloser, SelectIdle, PassOver
    <3>. QED  BY <2>0, <3>1, Limits, SMT
  <2>2. PICK s \in {"none", "selected"} : closer' = [closer EXCEPT ![c] = s]
    BY <1>3 DEF StopCloser, SelectIdle, PassOver
  <2>3. closer' \in [Closers -> {"none", "selected", "closing"}] /\ Closing' \subseteq Closing
    BY <2>2 DEF IInv, Typed, Closing
  <2>4. UNCHANGED <<sessionVars, item, arrival, workerVars, sends, overlapped>>
    BY <1>3 DEF StopCloser, SelectIdle, PassOver
  <2>. QED  BY <2>1, <2>3, <2>4, CloserInv
<1>4. CASE UNCHANGED vars
  <2>1. UNCHANGED <<sessionVars, item, arrival, workerVars, sends, overlapped>>
    BY <1>4 DEF vars, sessionVars, workerVars
  <2>2. /\ closer' \in [Closers -> {"none", "selected", "closing"}] /\ stops' \in 0 .. MaxStops
        /\ Closing' \subseteq Closing
    BY <1>4 DEF vars, IInv, Typed, Closing
  <2>. QED  BY <2>1, <2>2, CloserInv
<1>. QED
  BY <1>1, <1>2, <1>3, <1>4, EnqueueInv, ClaimCloseInv, RecordCloseInv, TickInv
  DEF Next, CloseSession, PollNothing

LEMMA Inductive == Spec => []IInv
BY InitInv, NextInv, PTL DEF Spec

\* The rows keep their types and, unless two workers overlapped, the session is busy only
\* while a delivery of it is in flight, so the mailbox worker can bring it out of "busy".
THEOREM SessionRowsAgree == Spec => []SessionConsistent
<1>1. IInv => SessionConsistent
  <2>1. IInv => TypeOK
    BY SMT DEF IInv, Typed, WorkerInv, TypeOK, ItemRow
  <2>2. IInv => BusyIsOwned
    BY DEF IInv, AloneInv, BusyIsOwned
  <2>. QED  BY <2>1, <2>2 DEF SessionConsistent
<1>. QED  BY <1>1, Inductive, PTL

\* backend.send is called at most once for a prompt and in the order of arrival, however
\* many workers drain the mailbox, stop half way or capture the same delivery.
THEOREM DeliveredOnceInOrder == Spec => []SentOnceInOrder
<1>1. ASSUME IInv PROVE SentOnceInOrder
  <2>1. \A m \in Prompts : sends[m] <= 1
    BY <1>1 DEF IInv, ItemInv
  <2>2. Cardinality(InFlight) <= 1
    <3>1. CASE InFlight = {}
      BY <3>1, FS_EmptySet, SMT
    <3>2. CASE InFlight # {}
      <4>1. PICK m \in InFlight : InFlight = {m}
        BY <1>1, <3>2 DEF IInv, FlightInv
      <4>2. Cardinality({m}) = 1
        BY FS_Singleton
      <4>. QED  BY <4>1, <4>2, SMT
    <3>. QED  BY <3>1, <3>2
  <2>3. ASSUME NEW i \in DOMAIN arrival, NEW j \in DOMAIN arrival, i < j, sends[arrival[j]] > 0
        PROVE  item[arrival[i]].status \in Settled
    <3>1. arrival[j] \in Prompts
      BY <1>1, SMT DEF IInv, Typed
    <3>2. item[arrival[j]].status # "queued"
      BY <1>1, <2>3, <3>1, SMT DEF IInv, ItemInv, Waiting
    <3>. QED  BY <1>1, <2>3, <3>2 DEF IInv, OrderInv
  <2>. QED  BY <2>1, <2>2, <2>3 DEF SentOnceInOrder
<1>. QED  BY <1>1, Inductive, PTL

\* Unless workers or closers overlapped, close_session never runs under a delivery, and
\* leaves no prompt pending in a session that is being closed or is closed.
THEOREM CloseIsClean == Spec => []CloseLeavesNothingPending
<1>1. ASSUME IInv PROVE CloseLeavesNothingPending
  <2>1. SUFFICES ASSUME ~overlapped PROVE CloseLeavesNothingPending
    BY DEF CloseLeavesNothingPending
  <2>2. Closing # {} => \A w \in Workers : stage[w] = "idle"
    BY <1>1, <2>1, HasItem
  <2>3. session \in {"closing", "closed"} => Queued = {} /\ InFlight = {}
    BY <1>1, <2>1 DEF IInv, AloneInv
  <2>. QED  BY <2>2, <2>3 DEF CloseLeavesNothingPending
<1>. QED  BY <1>1, Inductive, PTL

=============================================================================
