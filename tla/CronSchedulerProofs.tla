------------------------ MODULE CronSchedulerProofs ------------------------
(***************************************************************************)
(* Proofs about CronScheduler, for any number of jobs and workers, any     *)
(* schedules, lease times and numbers of faults, in a zone whose clocks    *)
(* never go back.  Clocks may jump forward.  (Where clocks go back a late  *)
(* dispatch can move run_at to the past: the run of CronSchedulerFold.)    *)
(***************************************************************************)
EXTENDS CronScheduler, FiniteSetTheorems, WellFoundedInduction, TLAPS

\* Most steps are first-order reasoning; those that are not name their prover.
USE Zenon

\* Local time grows with time.
Increasing == \A s, t \in Timestamps : s < t => LocalTime[s] < LocalTime[t]

Item == [job : Jobs, token : Tokens \ {0}]

\* A worker has claimed a job at most once.
BatchInv ==
    /\ batch \in [Workers -> Seq(Item)]
    /\ \A w \in Workers : \A m, n \in DOMAIN batch[w] :
         batch[w][m].job = batch[w][n].job => m = n

\* A row stands at an occurrence of its job.  Nobody has failed at a pending one, and a
\* leased one is due and has a valid schedule.
RowInv == \A j \in Jobs :
    /\ job[j].runAt \in Occurrences(j)
    /\ job[j].status \in {"absent", "pending"} => job[j].attempts = 0
    /\ job[j].status = "leased" => job[j].runAt <= now /\ j \notin Invalid

\* What was published lies behind the row; only a finished job stands at its last one.
BehindInv == \A j \in Jobs, t \in Timestamps :
    Published(j, t) => t < job[j].runAt \/ (job[j].status = "fired" /\ t = job[j].runAt)

\* Who was told that a job is over was told of a row that no worker writes again.
ToldInv == \A j \in Jobs :
    told[j] \in {"cancelled", "already_cancelled", "already_finished"} =>
        job[j].status \in {"cancelled", "fired", "dead_letter"}

IInv ==
    /\ JobsConsistent /\ NoOccurrenceLost
    /\ BatchInv /\ RowInv /\ BehindInv /\ ToldInv

----------------------------------------------------------------------------
\* The schedule, where local time grows.

LEMMA LeastNatural ==
    ASSUME NEW S \in SUBSET Nat, S # {}
    PROVE  \E n \in S : \A k \in S : n <= k
<1>. DEFINE R == {ss \in Nat \X Nat : ss[1] < ss[2]}
<1>1. IsWellFoundedOn(R, Nat)
  BY NatLessThanWellFounded DEF OpToRel
<1>2. ASSUME NEW k \in Nat, NEW n \in Nat, k < n PROVE <<k, n>> \in R
  BY <1>2
<1>. HIDE DEF R
<1>3. PICK n \in S : \A k \in S : <<k, n>> \notin R
  BY <1>1, WFMin
<1>4. \A k \in S : ~(k < n)
  BY <1>2, <1>3
<1>. QED  BY <1>4, SMT

LEMMA Zone ==
    /\ Timestamps \subseteq Nat
    /\ \A t \in Timestamps : LocalTime[t] \in Int
    /\ \A j \in Jobs : Anchor[j] \in Timestamps
    /\ \A j \in Jobs : \A c \in Rule[j] : \E t \in Timestamps : c = LocalTime[t]
<1>1. Timestamps \subseteq Nat
  BY CronAssumption, SMT DEF Timestamps
<1>2. \A t \in Timestamps : LocalTime[t] \in Int
  BY CronAssumption
<1>3. \A j \in Jobs : Anchor[j] \in Timestamps
  BY CronAssumption
<1>4. \A j \in Jobs : \A c \in Rule[j] : \E t \in Timestamps : c = LocalTime[t]
  BY CronAssumption DEF LocalTimes
<1>. QED  BY <1>1, <1>2, <1>3, <1>4

\* A local time is shown once, and later ones later.
LEMMA LocalOrder ==
    ASSUME Increasing, NEW s \in Timestamps, NEW t \in Timestamps
    PROVE  /\ LocalTime[s] = LocalTime[t] => s = t
           /\ s < t <=> LocalTime[s] < LocalTime[t]
<1>1. s \in Nat /\ t \in Nat /\ LocalTime[s] \in Int /\ LocalTime[t] \in Int
  BY Zone
<1>2. /\ s < t => LocalTime[s] < LocalTime[t]
      /\ t < s => LocalTime[t] < LocalTime[s]
  BY DEF Increasing
<1>. QED  BY <1>1, <1>2, SMT

\* The timestamp of a local time is the time that shows it.
LEMMA TimestampFacts ==
    ASSUME Increasing, NEW t \in Timestamps
    PROVE  Timestamp(LocalTime[t]) = t
<1>. DEFINE S == {s \in Timestamps : LocalTime[s] = LocalTime[t]}
<1>1. S = {t}
  BY LocalOrder
<1>2. t <= t
  BY Zone, SMT
<1>3. Min({t}) = t
  BY <1>2 DEF Min
<1>. QED  BY <1>1, <1>3 DEF Timestamp

LEMMA OccurrenceFacts ==
    ASSUME Increasing, NEW j \in Jobs, NEW t
    PROVE  t \in Occurrences(j) <=>
             /\ t \in Timestamps
             /\ t = Anchor[j] \/ (Anchor[j] < t /\ LocalTime[t] \in Rule[j])
<1>1. ASSUME t \in Timestamps, NEW c \in Rule[j], t = Timestamp(c) PROVE LocalTime[t] = c
  BY ZenonT(40), <1>1, Zone, TimestampFacts
<1>2. ASSUME t \in Timestamps PROVE t > Anchor[j] <=> Anchor[j] < t
  BY <1>2, Zone, SMT
<1>. QED  BY <1>1, <1>2, Zone, TimestampFacts DEF Occurrences

\* next_run_at is the first occurrence after the moment of firing.
LEMMA NextRunAtFacts ==
    ASSUME Increasing, NEW j \in Jobs, NEW f \in Timestamps
    PROVE  /\ Following(j, f) # {} =>
                /\ NextRunAt(j, f) \in Timestamps
                /\ f < NextRunAt(j, f)
                /\ LocalTime[NextRunAt(j, f)] \in Rule[j]
           /\ \A t \in Timestamps : f < t /\ LocalTime[t] \in Rule[j] =>
                Following(j, f) # {} /\ NextRunAt(j, f) <= t
<1>. DEFINE N == {t \in Timestamps : f < t /\ LocalTime[t] \in Rule[j]}
            F == Following(j, f)
<1>1. \A c : c \in F <=> \E t \in N : c = LocalTime[t]
  <2>1. ASSUME NEW t \in Timestamps PROVE LocalTime[t] > LocalTime[f] <=> f < t
    <3>1. LocalTime[t] > LocalTime[f] <=> LocalTime[f] < LocalTime[t]
      BY Zone, SMT
    <3>. QED  BY <3>1, LocalOrder
  <2>2. \A c : c \in F <=> c \in Rule[j] /\ c > LocalTime[f]
    BY DEF Following
  <2>3. ASSUME NEW c, c \in F PROVE \E t \in N : c = LocalTime[t]
    <3>1. c \in Rule[j] /\ c > LocalTime[f]
      BY <2>2, <2>3
    <3>2. PICK t \in Timestamps : c = LocalTime[t]
      BY <3>1, Zone
    <3>3. LocalTime[t] \in Rule[j] /\ LocalTime[t] > LocalTime[f]
      BY <3>1, <3>2
    <3>. QED  BY <2>1, <3>2, <3>3
  <2>4. ASSUME NEW t \in N PROVE LocalTime[t] \in F
    BY <2>1, <2>2
  <2>. QED  BY <2>3, <2>4
<1>2. ASSUME N # {} PROVE \E n \in N : NextRunAt(j, f) = n /\ \A t \in N : n <= t
  <2>1. N \in SUBSET Nat
    BY Zone
  <2>2. PICK n \in N : \A t \in N : n <= t
    BY <1>2, <2>1, LeastNatural
  <2>3. LocalTime[n] \in F
    BY <1>1
  <2>4. ASSUME NEW c \in F PROVE LocalTime[n] <= c
    <3>1. PICK t \in N : c = LocalTime[t]
      BY <1>1
    <3>2. n <= t /\ n \in Nat /\ t \in Nat /\ LocalTime[t] \in Int /\ LocalTime[n] \in Int
      BY <2>2, Zone
    <3>3. n < t => LocalTime[n] < LocalTime[t]
      BY LocalOrder
    <3>. QED  BY <3>1, <3>2, <3>3, SMT
  <2>. DEFINE m == Min(F)
  <2>5. m \in F /\ \A c \in F : m <= c
    BY <2>3, <2>4 DEF Min
  <2>6. m = LocalTime[n]
    <3>1. m <= LocalTime[n] /\ LocalTime[n] <= m
      BY <2>3, <2>4, <2>5
    <3>2. PICK t \in N : m = LocalTime[t]
      BY <1>1, <2>5
    <3>3. LocalTime[t] \in Int /\ LocalTime[n] \in Int
      BY Zone
    <3>. HIDE DEF m
    <3>. QED  BY <3>1, <3>2, <3>3, SMT
  <2>7. NextRunAt(j, f) = n
    BY <2>6, TimestampFacts DEF NextRunAt
  <2>. QED  BY <2>2, <2>7
<1>3. F # {} => N # {}
  BY <1>1
<1>4. \A t \in N : F # {}
  BY <1>1
<1>. QED  BY <1>2, <1>3, <1>4

----------------------------------------------------------------------------
\* Tokens are drawn from a range wide enough that one is always unused: a worker holds at
\* most one token of a job.

LEMMA ImageSize ==
    ASSUME NEW S, IsFiniteSet(S), NEW f
    PROVE  /\ IsFiniteSet({f[x] : x \in S})
           /\ Cardinality({f[x] : x \in S}) <= Cardinality(S)
<1>. DEFINE g == [x \in S |-> f[x]]
            T == {f[x] : x \in S}
<1>1. g \in Surjection(S, T)
  BY DEF Surjection
<1>. HIDE DEF g, T
<1>2. IsFiniteSet(T) /\ Cardinality(T) <= Cardinality(S)
  BY <1>1, FS_Surjection
<1>. QED  BY <1>2 DEF T

LEMMA FreshTokenIsToken ==
    ASSUME BatchInv, NEW j \in Jobs
    PROVE  FreshToken(j) \in Tokens \ {0}
<1>. DEFINE nW == Cardinality(Workers)
            Mine(w) == {x \in Range(batch[w]) : x.job = j}
            held == [w \in Workers |-> (CHOOSE x \in Mine(w) : TRUE).token]
            H == {held[w] : w \in Workers}
            U == InUse(j)
            Free == 1 .. nW + 1
<1>1. IsFiniteSet(Workers) /\ nW \in Nat
  BY CronAssumption, FS_CardinalityType
<1>2. U \subseteq H
  <2>1. SUFFICES ASSUME NEW u \in U PROVE u \in H
    OBVIOUS
  <2>5. PICK w \in Workers : \E x \in Mine(w) : u = x.token
    BY <2>1 DEF InUse
  <2>2. PICK x \in Mine(w) : u = x.token
    BY <2>5
  <2>3. ASSUME NEW y \in Mine(w) PROVE y = x
    <3>1. PICK m \in DOMAIN batch[w] : x = batch[w][m]
      BY DEF Range
    <3>2. PICK n \in DOMAIN batch[w] : y = batch[w][n]
      BY DEF Range
    <3>3. batch[w][m].job = j /\ batch[w][n].job = j
      BY <3>1, <3>2
    <3>4. m = n
      BY <3>3 DEF BatchInv
    <3>. QED  BY <3>1, <3>2, <3>4
  <2>4. (CHOOSE y \in Mine(w) : TRUE) = x
    BY <2>3
  <2>6. held[w] = u
    BY <2>2, <2>4
  <2>. QED  BY <2>6
<1>3. IsFiniteSet(H) /\ Cardinality(H) <= nW
  <2>. HIDE DEF held
  <2>. QED  BY <1>1, ImageSize
<1>. HIDE DEF H, U, nW
<1>4. IsFiniteSet(U) /\ Cardinality(U) <= Cardinality(H)
  BY <1>2, <1>3, FS_Subset
<1>5. Cardinality(U) <= nW
  <2>1. Cardinality(H) \in Nat /\ Cardinality(U) \in Nat
    BY <1>3, <1>4, FS_CardinalityType
  <2>. QED  BY <1>1, <1>3, <1>4, <2>1, SMT
<1>6. IsFiniteSet(Free) /\ Cardinality(Free) = nW + 1
  <2>1. 1 \in Int /\ nW + 1 \in Int /\ ~(1 > nW + 1)
    BY <1>1, SMT
  <2>2. IsFiniteSet(Free) /\ Cardinality(Free) = (nW + 1) - 1 + 1
    BY <2>1, FS_Interval
  <2>. HIDE DEF Free
  <2>. QED  BY <1>1, <2>2, SMT
<1>7. \E t \in Free : t \notin U
  <2>1. SUFFICES ASSUME Free \subseteq U PROVE FALSE
    OBVIOUS
  <2>2. Cardinality(Free) <= Cardinality(U)
    BY <1>4, <2>1, FS_Subset
  <2>3. Cardinality(U) \in Nat
    BY <1>4, FS_CardinalityType
  <2>. HIDE DEF Free
  <2>. QED  BY <1>1, <1>5, <1>6, <2>2, <2>3, SMT
<1>8. Free \subseteq Tokens \ {0} /\ Tokens \subseteq Nat
  BY <1>1, SMT DEF Tokens, nW
<1>. DEFINE S == Tokens \ ({0} \cup U)
<1>9. S \in SUBSET Nat /\ S # {}
  <2>. HIDE DEF Free
  <2>. QED  BY <1>7, <1>8
<1>10. \E n \in S : \A k \in S : n <= k
  BY <1>9, LeastNatural
<1>11. FreshToken(j) \in S
  BY <1>10 DEF FreshToken, Min, U
<1>. QED  BY <1>11

----------------------------------------------------------------------------
\* The rows.

LEMMA Limits ==
    /\ MaxAttempts \in Nat /\ MaxAttempts > 0
    /\ LeaseSeconds \in Nat /\ LeaseSeconds > 0
    /\ MaxFaults \in Nat
    /\ 0 \in Tokens
<1>1. MaxAttempts \in Nat \ {0} /\ LeaseSeconds \in Nat \ {0} /\ MaxFaults \in Nat
  BY CronAssumption
<1>2. Cardinality(Workers) \in Nat
  BY CronAssumption, FS_CardinalityType
<1>3. 0 \in Tokens
  BY <1>2, SMT DEF Tokens
<1>. QED  BY <1>1, <1>3, SMT

LEMMA RowFacts ==
    ASSUME NEW r \in JobRow
    PROVE  /\ r.status \in JobStatus /\ r.runAt \in Timestamps /\ r.token \in Tokens
           /\ r.attempts \in Nat /\ r.attempts <= MaxAttempts
           /\ r.lease \in Nat /\ r.lease <= LeaseSeconds
<1>1. /\ r.status \in JobStatus /\ r.runAt \in Timestamps /\ r.token \in Tokens
      /\ r.attempts \in 0 .. MaxAttempts /\ r.lease \in 0 .. LeaseSeconds
  BY DEF JobRow
<1>. QED  BY <1>1, Limits, SMT

LEMMA FreedFacts ==
    ASSUME NEW r \in JobRow, NEW s \in JobStatus
    PROVE  /\ Freed(r, s) \in JobRow
           /\ Freed(r, s).status = s
           /\ Freed(r, s).runAt = r.runAt
           /\ Freed(r, s).attempts = r.attempts
<1>1. 0 \in 0 .. LeaseSeconds
  BY Limits, SMT
<1>. QED  BY <1>1, Limits DEF Freed, JobRow

LEMMA LeasedFacts ==
    ASSUME NEW r \in JobRow, NEW k \in Tokens, r.attempts < MaxAttempts
    PROVE  /\ Leased(r, k) \in JobRow
           /\ Leased(r, k).status = "leased"
           /\ Leased(r, k).runAt = r.runAt
<1>1. LeaseSeconds \in 0 .. LeaseSeconds /\ r.attempts + 1 \in 0 .. MaxAttempts
  BY Limits, RowFacts, SMT
<1>. QED  BY <1>1 DEF Leased, JobRow, JobStatus

LEMMA AdvancedFacts ==
    ASSUME Increasing, TypeOK, RowInv, NEW j \in Jobs, job[j].runAt <= now
    PROVE  /\ Advanced(j) \in JobRow
           /\ Advanced(j).runAt \in Occurrences(j)
           /\ \/ /\ Advanced(j).status = "fired"
                 /\ Advanced(j).runAt = job[j].runAt
                 /\ \A t \in Occurrences(j) : t <= now
              \/ /\ Advanced(j).status = "pending"
                 /\ Advanced(j).attempts = 0
                 /\ now < Advanced(j).runAt
                 /\ \A t \in Occurrences(j) : now < t => Advanced(j).runAt <= t
<1>1. job[j] \in JobRow /\ now \in Timestamps /\ job[j].runAt \in Occurrences(j)
  BY DEF TypeOK, RowInv
<1>2. job[j].runAt \in Nat /\ now \in Nat /\ Anchor[j] \in Nat
  BY <1>1, OccurrenceFacts, Zone
<1>3. Anchor[j] <= now
  <2>1. job[j].runAt = Anchor[j] \/ Anchor[j] < job[j].runAt
    BY <1>1, OccurrenceFacts
  <2>. QED  BY <1>2, <2>1, SMT
<1>4. ASSUME NEW t \in Occurrences(j), now < t PROVE t \in Timestamps /\ LocalTime[t] \in Rule[j]
  <2>1. t \in Timestamps /\ (t = Anchor[j] \/ (Anchor[j] < t /\ LocalTime[t] \in Rule[j]))
    BY OccurrenceFacts
  <2>2. t # Anchor[j]
    BY <1>2, <1>3, <1>4, SMT
  <2>. QED  BY <2>1, <2>2
<1>5. CASE Following(j, now) = {}
  <2>1. Advanced(j) = Freed(job[j], "fired")
    BY <1>5 DEF Advanced
  <2>2. ASSUME NEW t \in Occurrences(j) PROVE t <= now
    <3>1. ~(now < t)
      BY <1>1, <1>4, <1>5, NextRunAtFacts
    <3>2. t \in Nat
      BY OccurrenceFacts, Zone
    <3>. QED  BY <1>2, <3>1, <3>2, SMT
  <2>3. "fired" \in JobStatus
    BY DEF JobStatus
  <2>. DEFINE q == Freed(job[j], "fired")
  <2>4. q \in JobRow /\ q.status = "fired" /\ q.runAt = job[j].runAt
    BY <1>1, <2>3, FreedFacts
  <2>. QED  BY <1>1, <2>1, <2>2, <2>4
<1>6. CASE Following(j, now) # {}
  <2>. DEFINE n == NextRunAt(j, now)
              q == Freed(job[j], "pending")
  <2>1. n \in Timestamps /\ now < n /\ LocalTime[n] \in Rule[j]
    BY <1>1, <1>6, NextRunAtFacts
  <2>2. \A t \in Occurrences(j) : now < t => n <= t
    BY <1>1, <1>4, NextRunAtFacts
  <2>3. Anchor[j] < n
    <3>1. n \in Nat
      BY <2>1, Zone
    <3>. HIDE DEF n
    <3>. QED  BY <1>2, <1>3, <2>1, <3>1, SMT
  <2>4. n \in Occurrences(j)
    BY <2>1, <2>3, OccurrenceFacts
  <2>5. q \in JobRow /\ q.status = "pending"
    BY <1>1, FreedFacts DEF JobStatus
  <2>6. Advanced(j) = [q EXCEPT !.runAt = n, !.attempts = 0]
    BY <1>6 DEF Advanced
  <2>7. 0 \in 0 .. MaxAttempts
    BY Limits, SMT
  <2>. HIDE DEF n, q
  <2>8. /\ [q EXCEPT !.runAt = n, !.attempts = 0] \in JobRow
        /\ [q EXCEPT !.runAt = n, !.attempts = 0].status = "pending"
        /\ [q EXCEPT !.runAt = n, !.attempts = 0].runAt = n
        /\ [q EXCEPT !.runAt = n, !.attempts = 0].attempts = 0
    BY <2>1, <2>5, <2>7 DEF JobRow
  <2>. QED  BY <2>1, <2>2, <2>4, <2>6, <2>8
<1>. QED  BY <1>5, <1>6

----------------------------------------------------------------------------
\* The invariant holds initially.

Over == {"cancelled", "already_cancelled", "already_finished"}
Closed == {"cancelled", "fired", "dead_letter"}

LEMMA BatchTyped ==
    ASSUME NEW b \in [Workers -> Seq(Item)]
    PROVE  \A w \in Workers : \A x \in Range(b[w]) : x.job \in Jobs /\ x.token \in Tokens \ {0}
<1>1. SUFFICES ASSUME NEW w \in Workers, NEW n \in DOMAIN b[w]
               PROVE  b[w][n] \in Item
  BY DEF Range, Item
<1>2. b[w] \in Seq(Item)
  OBVIOUS
<1>. QED  BY <1>2, SMT

LEMMA InitInv == Increasing /\ Init => IInv
<1>. SUFFICES ASSUME Increasing, Init PROVE IInv
  OBVIOUS
<1>1. \A j \in Jobs : Anchor[j] \in Timestamps
  BY Zone
<1>2. /\ 0 \in Timestamps /\ 0 \in 0 .. MaxAttempts /\ 0 \in 0 .. LeaseSeconds
      /\ 0 \in 0 .. MaxFaults /\ 0 \in Tokens
  BY CronAssumption, Limits, SMT DEF Timestamps
<1>3. BatchInv
  <2>1. \A w \in Workers : batch[w] = <<>>
    BY DEF Init
  <2>2. <<>> \in Seq(Item) /\ \A m \in DOMAIN <<>> : FALSE
    BY SMT
  <2>. QED  BY <2>1, <2>2 DEF BatchInv, Init
<1>4. \A j \in Jobs : /\ job[j].status = "absent" /\ job[j].runAt = Anchor[j] /\ job[j].attempts = 0
                      /\ told[j] = "none"
                      /\ \A t \in Timestamps : event[j][t].status = "absent"
  BY DEF Init, NoEvent
<1>5. TypeOK
  <2>1. job \in [Jobs -> JobRow]
    BY <1>1, <1>2 DEF Init, JobRow, JobStatus
  <2>2. NoEvent \in EventRow
    BY <1>2 DEF NoEvent, EventRow
  <2>3. event \in [Jobs -> [Timestamps -> EventRow]]
    BY <2>2 DEF Init
  <2>4. told \in [Jobs -> Outcomes \cup {"none"}]
    BY DEF Init
  <2>5. now \in Timestamps /\ faults \in 0 .. MaxFaults
    BY <1>2 DEF Init
  <2>. QED  BY <1>3, <2>1, <2>3, <2>4, <2>5, BatchTyped DEF TypeOK, BatchInv
<1>6. FiredWhenDue /\ GivenUpUnpublished /\ CancelledNeverRuns
  BY <1>4 DEF FiredWhenDue, GivenUpUnpublished, CancelledNeverRuns, Published
<1>7. NoOccurrenceLost
  <2>1. ASSUME NEW j \in Jobs, NEW t \in Occurrences(j) PROVE t >= Anchor[j]
    <3>1. t \in Nat /\ Anchor[j] \in Nat /\ (t = Anchor[j] \/ Anchor[j] < t)
      BY OccurrenceFacts, Zone
    <3>. QED  BY <3>1, SMT
  <2>. QED  BY <1>4, <2>1 DEF NoOccurrenceLost
<1>8. RowInv
  <2>1. \A j \in Jobs : Anchor[j] \in Occurrences(j)
    BY DEF Occurrences
  <2>. QED  BY <1>4, <2>1 DEF RowInv
<1>9. BehindInv /\ ToldInv
  BY <1>4 DEF BehindInv, ToldInv, Published
<1>. QED  BY <1>3, <1>5, <1>6, <1>7, <1>8, <1>9 DEF IInv, JobsConsistent

----------------------------------------------------------------------------
\* A step that publishes nothing, finishes nobody and leaves every run_at where it is.

LEMMA RowStepInv ==
    ASSUME IInv, BatchInv', event' = event,
           now' \in Timestamps, now <= now', faults' \in 0 .. MaxFaults,
           job' \in [Jobs -> JobRow],
           \A j \in Jobs :
               /\ job'[j].runAt = job[j].runAt
               /\ job'[j].status = "fired" <=> job[j].status = "fired"
               /\ job[j].status \in Closed => job'[j].status \in Closed
               /\ job'[j].status \in {"absent", "pending"} => job'[j].attempts = 0
               /\ job'[j].status = "leased" => job[j].runAt <= now /\ j \notin Invalid
               /\ job'[j].status = "dead_letter" =>
                    j \in Invalid \/ job'[j].attempts = MaxAttempts,
           told' \in [Jobs -> Outcomes \cup {"none"}],
           \A j \in Jobs : told'[j] \in Over =>
               told[j] \in Over \/ (job'[j].status \in Closed /\ ~HasActiveEvent(j))
    PROVE  IInv'
<1>1. TypeOK /\ FiredWhenDue /\ GivenUpUnpublished /\ CancelledNeverRuns
      /\ NoOccurrenceLost /\ RowInv /\ BehindInv /\ ToldInv
  BY DEF IInv, JobsConsistent
<1>2. TypeOK'
  <2>1. \A w \in Workers : \A x \in Range(batch'[w]) : x.job \in Jobs /\ x.token \in Tokens \ {0}
    BY BatchTyped DEF BatchInv
  <2>. QED  BY <1>1, <2>1 DEF TypeOK
<1>3. FiredWhenDue' /\ NoOccurrenceLost'
  <2>1. FiredWhenDue'
    BY <1>1 DEF FiredWhenDue, Published, Occurrences
  <2>2. NoOccurrenceLost'
    BY <1>1 DEF NoOccurrenceLost, Published, Occurrences
  <2>. QED  BY <2>1, <2>2
<1>4. BehindInv'
  BY <1>1 DEF BehindInv, Published
<1>5. GivenUpUnpublished'
  <2>1. SUFFICES ASSUME NEW j \in Jobs, job'[j].status = "dead_letter"
                 PROVE  ~Published(j, job[j].runAt)
    BY DEF GivenUpUnpublished, Published
  <2>2. job[j].runAt \in Timestamps /\ job[j].status # "fired"
    BY <1>1, <2>1, RowFacts DEF TypeOK
  <2>3. ~(job[j].runAt < job[j].runAt)
    <3>1. job[j].runAt \in Nat
      BY <2>2, Zone
    <3>. QED  BY <3>1, SMT
  <2>. QED  BY <1>1, <2>2, <2>3 DEF BehindInv
<1>6. RowInv'
  <2>1. SUFFICES ASSUME NEW j \in Jobs
                 PROVE  /\ job'[j].runAt \in Occurrences(j)
                        /\ job'[j].status \in {"absent", "pending"} => job'[j].attempts = 0
                        /\ job'[j].status = "leased" => job'[j].runAt <= now' /\ j \notin Invalid
    BY DEF RowInv, Occurrences
  <2>2. ASSUME job[j].runAt <= now PROVE job[j].runAt <= now'
    <3>1. job[j].runAt \in Nat /\ now \in Nat /\ now' \in Nat
      BY <1>1, RowFacts, Zone DEF TypeOK
    <3>. QED  BY <2>2, <3>1, SMT
  <2>. QED  BY <1>1, <2>2 DEF RowInv
<1>7. ToldInv'
  BY <1>1 DEF ToldInv, Over, Closed
<1>8. CancelledNeverRuns'
  BY <1>1 DEF CancelledNeverRuns, HasActiveEvent, Over
<1>. QED  BY <1>2, <1>3, <1>4, <1>5, <1>6, <1>7, <1>8 DEF IInv, JobsConsistent

\* The rows stay as they are; a worker's batch is cut or dropped.
LEMMA TailFacts ==
    ASSUME BatchInv, NEW w \in Workers, batch[w] # <<>>,
           batch' = [batch EXCEPT ![w] = Tail(@)]
    PROVE  BatchInv'
<1>1. batch[w] \in Seq(Item) /\ batch \in [Workers -> Seq(Item)]
  BY DEF BatchInv
<1>2. /\ Tail(batch[w]) \in Seq(Item)
      /\ \A n \in DOMAIN Tail(batch[w]) :
            /\ n \in Nat /\ n + 1 \in DOMAIN batch[w]
            /\ Tail(batch[w])[n] = batch[w][n + 1]
  BY <1>1, SMT
<1>3. ASSUME NEW m \in DOMAIN Tail(batch[w]), NEW n \in DOMAIN Tail(batch[w]),
             Tail(batch[w])[m].job = Tail(batch[w])[n].job
      PROVE  m = n
  <2>1. m + 1 \in DOMAIN batch[w] /\ n + 1 \in DOMAIN batch[w]
        /\ batch[w][m + 1].job = batch[w][n + 1].job
    BY <1>2, <1>3
  <2>2. m + 1 = n + 1
    BY <2>1 DEF BatchInv
  <2>. QED  BY <1>2, <2>2, SMT
<1>. QED  BY ZenonT(40), <1>1, <1>2, <1>3 DEF BatchInv

LEMMA QuietInv ==
    ASSUME IInv, BatchInv', faults' \in 0 .. MaxFaults,
           job' = job, event' = event, told' = told, now' = now
    PROVE  IInv'
<1>1. TypeOK /\ GivenUpUnpublished /\ RowInv
  BY DEF IInv, JobsConsistent
<1>2. now <= now
  BY <1>1, Zone, SMT DEF TypeOK
<1>3. \A j \in Jobs :
        /\ job[j].status \in {"absent", "pending"} => job[j].attempts = 0
        /\ job[j].status = "leased" => job[j].runAt <= now /\ j \notin Invalid
        /\ job[j].status = "dead_letter" => j \in Invalid \/ job[j].attempts = MaxAttempts
  BY <1>1 DEF RowInv, GivenUpUnpublished
<1>. QED  BY <1>1, <1>2, <1>3, RowStepInv DEF TypeOK

----------------------------------------------------------------------------
\* The operations of the conversation, the claim, renewals and time.

LEMMA Unpacked ==
    ASSUME IInv
    PROVE  /\ TypeOK /\ FiredWhenDue /\ GivenUpUnpublished /\ CancelledNeverRuns
           /\ NoOccurrenceLost /\ BatchInv /\ RowInv /\ BehindInv /\ ToldInv
           /\ job \in [Jobs -> JobRow] /\ event \in [Jobs -> [Timestamps -> EventRow]]
           /\ told \in [Jobs -> Outcomes \cup {"none"}]
           /\ now \in Timestamps /\ now <= now /\ faults \in 0 .. MaxFaults
           /\ batch \in [Workers -> Seq(Item)]
<1>1. now \in Nat => now <= now
  BY SMT
<1>. QED  BY <1>1, Zone DEF IInv, JobsConsistent, TypeOK, BatchInv

\* What RowStepInv asks of a row, and why an unchanged row has it.
Kept(j) ==
    /\ job'[j].runAt = job[j].runAt
    /\ job'[j].status = "fired" <=> job[j].status = "fired"
    /\ job[j].status \in Closed => job'[j].status \in Closed
    /\ job'[j].status \in {"absent", "pending"} => job'[j].attempts = 0
    /\ job'[j].status = "leased" => job[j].runAt <= now /\ j \notin Invalid
    /\ job'[j].status = "dead_letter" => j \in Invalid \/ job'[j].attempts = MaxAttempts

LEMMA SameRow ==
    ASSUME IInv, NEW j \in Jobs,
           job'[j].status = job[j].status, job'[j].runAt = job[j].runAt,
           job'[j].attempts = job[j].attempts
    PROVE  Kept(j)
<1>1. RowInv /\ GivenUpUnpublished
  BY Unpacked
<1>. QED  BY <1>1 DEF Kept, RowInv, GivenUpUnpublished

LEMMA KeptInv ==
    ASSUME IInv, BatchInv', event' = event,
           now' \in Timestamps, now <= now', faults' \in 0 .. MaxFaults,
           job' \in [Jobs -> JobRow], \A j \in Jobs : Kept(j),
           told' \in [Jobs -> Outcomes \cup {"none"}],
           \A j \in Jobs : told'[j] \in Over =>
               told[j] \in Over \/ (job'[j].status \in Closed /\ ~HasActiveEvent(j))
    PROVE  IInv'
BY RowStepInv DEF Kept

LEMMA SameBatches ==
    ASSUME BatchInv, batch' = batch PROVE BatchInv'
BY DEF BatchInv

LEMMA InsertInv ==
    ASSUME IInv, NEW j \in Jobs, InsertJob(j) PROVE IInv'
<1>1. /\ job[j].status = "absent" /\ job' = [job EXCEPT ![j].status = "pending"]
      /\ event' = event /\ batch' = batch /\ told' = told /\ now' = now /\ faults' = faults
  BY DEF InsertJob
<1>2. job[j] \in JobRow /\ RowInv
  BY Unpacked
<1>3. [job[j] EXCEPT !.status = "pending"] \in JobRow
  BY <1>2 DEF JobRow, JobStatus
<1>4. job' \in [Jobs -> JobRow]
  BY <1>1, <1>3, Unpacked
<1>5. Kept(j)
  <2>1. /\ job'[j].status = "pending" /\ job'[j].runAt = job[j].runAt
        /\ job'[j].attempts = job[j].attempts
    BY <1>1, <1>2, Unpacked DEF JobRow
  <2>. QED  BY <1>1, <1>2, <2>1 DEF Kept, RowInv, Closed
<1>6. \A k \in Jobs : k # j => job'[k] = job[k]
  BY <1>1, Unpacked
<1>7. \A k \in Jobs : Kept(k)
  BY <1>5, <1>6, SameRow
<1>. QED  BY <1>1, <1>4, <1>7, Unpacked, SameBatches, KeptInv

LEMMA CancelInv ==
    ASSUME IInv, NEW j \in Jobs, CancelScheduledJob(j) PROVE IInv'
<1>1. /\ job[j].status # "absent"
      /\ told' = [told EXCEPT ![j] = Cancellation(j)]
      /\ job' = [job EXCEPT ![j] = IF job[j].status \in {"pending", "leased"}
                                   THEN Freed(job[j], "cancelled") ELSE job[j]]
      /\ event' = event /\ batch' = batch /\ now' = now /\ faults' = faults
  BY DEF CancelScheduledJob
<1>2. job[j] \in JobRow /\ job[j].status \in JobStatus
  BY Unpacked, RowFacts
<1>. DEFINE q == Freed(job[j], "cancelled")
<1>3. /\ q \in JobRow /\ q.status = "cancelled" /\ q.runAt = job[j].runAt
  BY <1>2, FreedFacts DEF JobStatus
<1>. HIDE DEF q
<1>4. job' \in [Jobs -> JobRow] /\ \A k \in Jobs : k # j => job'[k] = job[k]
  BY <1>1, <1>2, <1>3, Unpacked DEF q
<1>5. job'[j] = IF job[j].status \in {"pending", "leased"} THEN q ELSE job[j]
  BY <1>1, Unpacked DEF q
<1>6. Kept(j)
  <2>1. CASE job[j].status \in {"pending", "leased"}
    <3>1. job'[j].status = "cancelled" /\ job'[j].runAt = job[j].runAt
      BY <1>3, <1>5, <2>1
    <3>. QED  BY <2>1, <3>1 DEF Kept, Closed
  <2>2. CASE job[j].status \notin {"pending", "leased"}
    BY <1>5, <2>2, SameRow
  <2>. QED  BY <2>1, <2>2
<1>7. \A k \in Jobs : Kept(k)
  BY <1>4, <1>6, SameRow
<1>8. Cancellation(j) \in Outcomes
  BY DEF Cancellation, Outcomes
<1>9. told' \in [Jobs -> Outcomes \cup {"none"}]
  BY <1>1, <1>8, Unpacked
<1>10. ASSUME NEW k \in Jobs, told'[k] \in Over
       PROVE  told[k] \in Over \/ (job'[k].status \in Closed /\ ~HasActiveEvent(k))
  <2>1. CASE k # j
    BY <1>1, <1>10, <2>1, Unpacked
  <2>2. CASE k = j
    <3>1. Cancellation(j) \in Over
      BY <1>1, <1>10, <2>2, Unpacked
    <3>2. ~HasActiveEvent(j)
      <4>1. HasActiveEvent(j) => Cancellation(j) = "current_run_may_complete"
        BY DEF Cancellation
      <4>2. "current_run_may_complete" \notin Over
        BY DEF Over
      <4>. QED  BY <3>1, <4>1, <4>2
    <3>3. job'[j].status \in Closed
      BY <1>1, <1>2, <1>3, <1>5 DEF Closed, JobStatus
    <3>. QED  BY <2>2, <3>2, <3>3
  <2>. QED  BY <2>1, <2>2
<1>. QED  BY <1>1, <1>4, <1>7, <1>9, <1>10, Unpacked, SameBatches, KeptInv

LEMMA RenewInv ==
    ASSUME IInv, NEW w \in Workers, RenewLease(w) PROVE IInv'
<1>1. PICK x \in Range(batch[w]) :
        /\ job' = [job EXCEPT ![x.job].lease = LeaseSeconds]
        /\ event' = event /\ batch' = batch /\ told' = told /\ now' = now /\ faults' = faults
  BY DEF RenewLease
<1>2. \A k \in Jobs : job[k] \in JobRow /\ [job[k] EXCEPT !.lease = LeaseSeconds] \in JobRow
  <2>1. LeaseSeconds \in 0 .. LeaseSeconds
    BY Limits, SMT
  <2>. QED  BY <2>1, Unpacked DEF JobRow
<1>3. job' \in [Jobs -> JobRow]
  BY <1>1, <1>2, Unpacked
<1>4. ASSUME NEW k \in Jobs
      PROVE  /\ job'[k].status = job[k].status /\ job'[k].runAt = job[k].runAt
             /\ job'[k].attempts = job[k].attempts
  <2>1. job'[k] = job[k] \/ job'[k] = [job[k] EXCEPT !.lease = LeaseSeconds]
    BY <1>1, Unpacked
  <2>. QED  BY <1>2, <2>1 DEF JobRow
<1>5. \A k \in Jobs : Kept(k)
  BY <1>4, SameRow
<1>. QED  BY <1>1, <1>3, <1>5, Unpacked, SameBatches, KeptInv

LEMMA TickInv ==
    ASSUME IInv, Tick PROVE IInv'
<1>1. /\ now' = IF now < Horizon THEN now + 1 ELSE now
      /\ job' = [j \in Jobs |-> [job[j] EXCEPT !.lease = IF job[j].lease > 0 THEN job[j].lease - 1 ELSE 0]]
      /\ event' = event /\ batch' = batch /\ told' = told /\ faults' = faults
  BY DEF Tick
<1>2. now' \in Timestamps /\ now <= now'
  <2>1. now \in Timestamps
    BY Unpacked
  <2>. QED  BY <1>1, <2>1, CronAssumption, SMT DEF Timestamps
<1>3. ASSUME NEW k \in Jobs
      PROVE  /\ job'[k] \in JobRow
             /\ job'[k].status = job[k].status /\ job'[k].runAt = job[k].runAt
             /\ job'[k].attempts = job[k].attempts
  <2>. DEFINE l == IF job[k].lease > 0 THEN job[k].lease - 1 ELSE 0
  <2>1. job[k] \in JobRow
    BY Unpacked
  <2>2. l \in 0 .. LeaseSeconds
    BY <2>1, RowFacts, Limits, SMT
  <2>3. job'[k] = [job[k] EXCEPT !.lease = l]
    BY <1>1
  <2>. HIDE DEF l
  <2>. QED  BY <2>1, <2>2, <2>3 DEF JobRow
<1>4. job' \in [Jobs -> JobRow]
  BY <1>1, <1>3
<1>5. \A k \in Jobs : Kept(k)
  BY <1>3, SameRow
<1>. QED  BY <1>1, <1>2, <1>4, <1>5, Unpacked, SameBatches, KeptInv

LEMMA ClaimInv ==
    ASSUME IInv, NEW w \in Workers, Claim(w) PROVE IInv'
<1>. DEFINE due == {j \in Scope[w] : Due(job[j])}
            S(taken) == {[job |-> j, token |-> FreshToken(j)] : j \in taken \ Invalid}
<1>1. PICK taken \in SUBSET due :
        /\ job' = [j \in Jobs |->
             CASE j \in Scope[w] /\ Exhausted(job[j]) -> Freed(job[j], "dead_letter")
               [] j \in taken \cap Invalid -> Freed(job[j], "dead_letter")
               [] j \in taken \ Invalid -> Leased(job[j], FreshToken(j))
               [] OTHER -> job[j]]
        /\ \E items \in Bijection(1 .. Cardinality(S(taken)), S(taken)) : batch' = [batch EXCEPT ![w] = items]
        /\ event' = event /\ told' = told /\ now' = now /\ faults' = faults
  BY DEF Claim
<1>2. \A j \in taken : j \in Jobs /\ Due(job[j])
  BY CronAssumption
<1>3. \A j \in Jobs : job[j] \in JobRow /\ FreshToken(j) \in Tokens \ {0}
  BY Unpacked, FreshTokenIsToken
<1>4. BatchInv'
  <2>. DEFINE T == S(taken)
              g == [j \in Jobs |-> [job |-> j, token |-> FreshToken(j)]]
  <2>1. PICK items \in Bijection(1 .. Cardinality(T), T) : batch' = [batch EXCEPT ![w] = items]
    BY <1>1
  <2>2. T = {g[j] : j \in taken \ Invalid}
    BY <1>2
  <2>3. IsFiniteSet(taken \ Invalid)
    BY <1>2, CronAssumption, FS_Subset
  <2>4. Cardinality(T) \in Nat
    <3>. HIDE DEF g, T
    <3>. QED  BY <2>2, <2>3, ImageSize, FS_CardinalityType
  <2>5. T \subseteq Item /\ \A x, y \in T : x.job = y.job => x = y
    <3>1. ASSUME NEW j \in taken \ Invalid
          PROVE  /\ [job |-> j, token |-> FreshToken(j)] \in Item
                 /\ [job |-> j, token |-> FreshToken(j)].job = j
      BY <1>2, <1>3 DEF Item
    <3>2. ASSUME NEW x \in T, NEW y \in T, x.job = y.job PROVE x = y
      <4>1. PICK j \in taken \ Invalid : x = [job |-> j, token |-> FreshToken(j)]
        OBVIOUS
      <4>2. PICK k \in taken \ Invalid : y = [job |-> k, token |-> FreshToken(k)]
        OBVIOUS
      <4>3. x.job = j /\ y.job = k
        BY <3>1, <4>1, <4>2
      <4>. QED  BY <3>2, <4>1, <4>2, <4>3
    <3>. QED  BY <3>1, <3>2
  <2>6. /\ items \in [1 .. Cardinality(T) -> T]
        /\ \A m, n \in 1 .. Cardinality(T) : items[m] = items[n] => m = n
    BY <2>1 DEF Bijection, Injection, IsInjective
  <2>. HIDE DEF T
  <2>7. DOMAIN items = 1 .. Cardinality(T) /\ \A n \in DOMAIN items : items[n] \in T
    BY <2>6
  <2>8. \A m, n \in DOMAIN items : items[m].job = items[n].job => m = n
    BY <2>5, <2>6, <2>7
  <2>9. items \in Seq(Item)
    BY <2>4, <2>5, <2>6, SMT
  <2>. QED  BY ZenonT(40), <2>1, <2>8, <2>9, Unpacked DEF BatchInv
<1>5. ASSUME NEW j \in Jobs PROVE job'[j] \in JobRow /\ Kept(j)
  <2>1. job[j] \in JobRow /\ "dead_letter" \in JobStatus /\ "leased" \in JobStatus /\ RowInv
    BY Unpacked DEF JobStatus
  <2>. DEFINE q == Freed(job[j], "dead_letter")
              p == Leased(job[j], FreshToken(j))
  <2>2. q \in JobRow /\ q.status = "dead_letter" /\ q.runAt = job[j].runAt /\ q.attempts = job[j].attempts
    BY <2>1, FreedFacts
  <2>3. ~(j \in taken /\ Exhausted(job[j]))
    <3>1. ASSUME Due(job[j]), Exhausted(job[j]) PROVE FALSE
      <4>1. job[j].status = "leased" /\ job[j].attempts < MaxAttempts /\ job[j].attempts >= MaxAttempts
        BY <3>1 DEF Due, Exhausted, Expired
      <4>. QED  BY <2>1, <4>1, RowFacts, Limits, SMT
    <3>. QED  BY <1>2, <3>1
  <2>4. CASE j \in Scope[w] /\ Exhausted(job[j])
    <3>1. job'[j] = q
      BY <1>1, <2>3, <2>4
    <3>2. job[j].status = "leased" /\ job[j].attempts = MaxAttempts
      <4>1. job[j].status = "leased" /\ job[j].attempts >= MaxAttempts
        BY <2>4 DEF Exhausted, Expired
      <4>. QED  BY <2>1, <4>1, RowFacts, Limits, SMT
    <3>. HIDE DEF q
    <3>. QED  BY <2>2, <3>1, <3>2 DEF Kept, Closed
  <2>5. CASE j \in taken \cap Invalid
    <3>1. job'[j] = q
      BY <1>1, <2>3, <2>5
    <3>2. job[j].status \in {"pending", "leased"}
      BY <1>2, <2>5 DEF Due, Expired
    <3>. HIDE DEF q
    <3>. QED  BY <2>2, <2>5, <3>1, <3>2 DEF Kept, Closed
  <2>6. CASE j \in taken \ Invalid
    <3>1. job'[j] = p
      BY <1>1, <2>3, <2>6
    <3>2. job[j].status \in {"pending", "leased"} /\ job[j].runAt <= now
      BY <1>2, <2>6 DEF Due, Expired
    <3>3. job[j].attempts < MaxAttempts
      <4>1. job[j].attempts = 0 \/ job[j].attempts < MaxAttempts
        BY <1>2, <2>1, <2>6 DEF Due, RowInv
      <4>. QED  BY <4>1, Limits, SMT
    <3>4. p \in JobRow /\ p.status = "leased" /\ p.runAt = job[j].runAt
      BY <1>3, <2>1, <3>3, LeasedFacts
    <3>. HIDE DEF p
    <3>. QED  BY <2>6, <3>1, <3>2, <3>4 DEF Kept, Closed
  <2>7. CASE ~(j \in Scope[w] /\ Exhausted(job[j])) /\ j \notin taken
    <3>1. job'[j] = job[j]
      BY <1>1, <2>7
    <3>. QED  BY <2>1, <3>1, SameRow
  <2>. QED  BY <2>4, <2>5, <2>6, <2>7
<1>6. job' \in [Jobs -> JobRow]
  BY <1>1, <1>5
<1>. QED  BY <1>1, <1>4, <1>5, <1>6, Unpacked, KeptInv

----------------------------------------------------------------------------
\* Dispatching, and the end of an event.

LEMMA SettleInv ==
    ASSUME IInv, NEW j \in Jobs, NEW t \in Timestamps, Settle(j, t) PROVE IInv'
<1>1. /\ event[j][t].status = "active"
      /\ event' = [event EXCEPT ![j][t].status = "settled"]
      /\ job' = job /\ batch' = batch /\ told' = told /\ now' = now /\ faults' = faults
  BY DEF Settle
<1>2. \A k \in Jobs : \A s \in Timestamps : event[k][s] \in EventRow
  BY Unpacked
<1>3. ASSUME NEW k \in Jobs, NEW s \in Timestamps
      PROVE  /\ event'[k][s] \in EventRow
             /\ event'[k][s].created = event[k][s].created
             /\ event'[k][s].status = event[k][s].status
                  \/ (event'[k][s].status = "settled" /\ event[k][s].status = "active")
  <2>. DEFINE q == [event[k][s] EXCEPT !.status = "settled"]
  <2>1. q \in EventRow /\ q.status = "settled" /\ q.created = event[k][s].created
    <3>1. event[k][s] \in EventRow
      BY <1>2
    <3>. QED  BY <3>1 DEF EventRow
  <2>2. event'[k][s] = IF k = j /\ s = t THEN q ELSE event[k][s]
    BY <1>1, Unpacked
  <2>. HIDE DEF q
  <2>. QED  BY <1>1, <1>2, <2>1, <2>2
<1>4. event' \in [Jobs -> [Timestamps -> EventRow]]
  <2>1. ASSUME NEW k \in Jobs PROVE event'[k] \in [Timestamps -> EventRow]
    <3>1. event'[k] = [s \in Timestamps |-> event'[k][s]]
      BY <1>1, Unpacked
    <3>. QED  BY <1>3, <3>1
  <2>2. event' = [k \in Jobs |-> event'[k]]
    BY <1>1, Unpacked
  <2>. QED  BY <2>1, <2>2
<1>5. \A k \in Jobs : \A s \in Timestamps : event'[k][s].status # "absent" <=> event[k][s].status # "absent"
  BY <1>3
<1>6. TypeOK'
  BY <1>1, <1>4, Unpacked DEF TypeOK
<1>7. FiredWhenDue'
  <2>1. \A k \in Jobs, s \in Timestamps : event'[k][s].status # "absent" =>
          s \in Occurrences(k) /\ s <= event'[k][s].created /\ k \notin Invalid
    <3>1. SUFFICES ASSUME NEW k \in Jobs, NEW s \in Timestamps, event'[k][s].status # "absent"
                   PROVE  s \in Occurrences(k) /\ s <= event'[k][s].created /\ k \notin Invalid
      OBVIOUS
    <3>2. s \in Occurrences(k) /\ s <= event[k][s].created /\ k \notin Invalid
      BY <1>5, <3>1, Unpacked DEF FiredWhenDue, Published
    <3>3. event'[k][s].created = event[k][s].created
      BY <1>3
    <3>. QED  BY <3>2, <3>3
  <2>. QED  BY <2>1 DEF FiredWhenDue, Published, Occurrences
<1>8. GivenUpUnpublished'
  <2>1. \A k \in Jobs : job[k].runAt \in Timestamps
    BY Unpacked, RowFacts
  <2>. QED  BY <1>1, <1>5, <2>1, Unpacked DEF GivenUpUnpublished, Published
<1>9. CancelledNeverRuns'
  <2>1. \A k \in Jobs : (\E s \in Timestamps : event'[k][s].status = "active") => HasActiveEvent(k)
    BY <1>3 DEF HasActiveEvent
  <2>. QED  BY <1>1, <2>1, Unpacked DEF CancelledNeverRuns, HasActiveEvent
<1>10. NoOccurrenceLost'
  <2>1. \A k \in Jobs : \A s \in Occurrences(k) : s \in Timestamps /\ \A u \in 0 .. s - 1 : u \in Timestamps
    <3>1. \A k \in Jobs : \A s \in Occurrences(k) : s \in Timestamps
      BY CronAssumption DEF Occurrences
    <3>2. \A s \in Timestamps : \A u \in 0 .. s - 1 : u \in Timestamps
      BY CronAssumption, SMT DEF Timestamps
    <3>. QED  BY <3>1, <3>2
  <2>2. ASSUME NEW k \in Jobs, NEW s \in Occurrences(k)
        PROVE  \/ s >= job[k].runAt /\ job[k].status # "fired"
               \/ event'[k][s].status # "absent"
               \/ \E u \in 0 .. s - 1 : event'[k][u].status # "absent" /\ s <= event'[k][u].created
    <3>1. \/ s >= job[k].runAt /\ job[k].status # "fired"
          \/ event[k][s].status # "absent"
          \/ \E u \in 0 .. s - 1 : event[k][u].status # "absent" /\ s <= event[k][u].created
      BY Unpacked DEF NoOccurrenceLost, Published
    <3>. QED  BY ZenonT(40), <1>3, <1>5, <2>1, <3>1
  <2>. QED  BY <1>1, <2>2 DEF NoOccurrenceLost, Published, Occurrences
<1>11. BatchInv' /\ RowInv' /\ ToldInv'
  BY <1>1, Unpacked DEF BatchInv, RowInv, ToldInv, Occurrences
<1>12. BehindInv'
  BY <1>1, <1>5, Unpacked DEF BehindInv, Published
<1>. QED  BY <1>6, <1>7, <1>8, <1>9, <1>10, <1>11, <1>12 DEF IInv, JobsConsistent

\* A dispatch under the lease publishes the occurrence at which the row stands, and the
\* row moves on to the first one after now.
LEMMA PublishInv ==
    ASSUME Increasing, IInv, NEW j \in Jobs, job[j].status = "leased",
           event' = Enqueue(j), job' = [job EXCEPT ![j] = Advanced(j)],
           BatchInv', told' = told, now' = now, faults' = faults
    PROVE  IInv' /\ (job'[j].status = "pending" => job'[j].runAt > job[j].runAt)
<1>. DEFINE r == job[j].runAt
            e == [status |-> "active", created |-> now]
<1>1. /\ r \in Occurrences(j) /\ r <= now /\ j \notin Invalid /\ r \in Timestamps
      /\ r \in Nat /\ now \in Nat
  BY Unpacked, RowFacts, Zone DEF RowInv
<1>2. event[j][r].status = "absent"
  <2>1. ~(r < r)
    BY <1>1, SMT
  <2>. QED  BY <1>1, <2>1, Unpacked DEF BehindInv, Published
<1>3. e \in EventRow /\ e.status = "active" /\ e.created = now
  BY Unpacked DEF EventRow
<1>. HIDE DEF r, e
<1>4. \A k \in Jobs, s \in Timestamps : event'[k][s] = IF k = j /\ s = r THEN e ELSE event[k][s]
  BY <1>1, <1>2, Unpacked DEF Enqueue, r, e
<1>5. event' \in [Jobs -> [Timestamps -> EventRow]]
  <2>1. ASSUME NEW k \in Jobs PROVE event'[k] \in [Timestamps -> EventRow]
    <3>1. event'[k] = [s \in Timestamps |-> event'[k][s]]
      BY <1>1, Unpacked DEF Enqueue, r
    <3>2. \A s \in Timestamps : event'[k][s] \in EventRow
      BY <1>3, <1>4, Unpacked
    <3>. QED  BY <3>1, <3>2
  <2>2. event' = [k \in Jobs |-> event'[k]]
    BY Unpacked DEF Enqueue
  <2>. QED  BY <2>1, <2>2
<1>. DEFINE q == Advanced(j)
<1>6. /\ q \in JobRow /\ q.runAt \in Occurrences(j)
      /\ \/ q.status = "fired" /\ q.runAt = r /\ \A t \in Occurrences(j) : t <= now
         \/ /\ q.status = "pending" /\ q.attempts = 0 /\ now < q.runAt
            /\ \A t \in Occurrences(j) : now < t => q.runAt <= t
  BY <1>1, Unpacked, AdvancedFacts DEF r
<1>. HIDE DEF q
<1>7. job' \in [Jobs -> JobRow] /\ job'[j] = q /\ \A k \in Jobs : k # j => job'[k] = job[k]
  BY <1>6, Unpacked DEF q
<1>8. q.runAt \in Nat /\ (q.status = "pending" => r < q.runAt) /\ q.runAt \in Timestamps
  <2>1. q.runAt \in Nat /\ q.runAt \in Timestamps
    BY <1>6, OccurrenceFacts, Zone
  <2>2. q.status = "pending" => now < q.runAt
    BY <1>6
  <2>. QED  BY <1>1, <2>1, <2>2, SMT
<1>9. TypeOK'
  <2>1. \A w \in Workers : \A x \in Range(batch'[w]) : x.job \in Jobs /\ x.token \in Tokens \ {0}
    BY BatchTyped DEF BatchInv
  <2>. QED  BY <1>5, <1>7, <2>1, Unpacked DEF TypeOK
<1>10. FiredWhenDue'
  <2>1. SUFFICES ASSUME NEW k \in Jobs, NEW s \in Timestamps, event'[k][s].status # "absent"
                 PROVE  s \in Occurrences(k) /\ s <= event'[k][s].created /\ k \notin Invalid
    BY DEF FiredWhenDue, Published, Occurrences
  <2>2. CASE k = j /\ s = r
    <3>1. event'[k][s] = e
      BY <1>4, <2>2
    <3>. QED  BY <1>1, <1>3, <2>2, <3>1
  <2>3. CASE ~(k = j /\ s = r)
    <3>1. event'[k][s] = event[k][s]
      BY <1>4, <2>3
    <3>. QED  BY <2>1, <3>1, Unpacked DEF FiredWhenDue, Published
  <2>. QED  BY <2>2, <2>3
<1>11. RowInv'
  <2>1. SUFFICES ASSUME NEW k \in Jobs
                 PROVE  /\ job'[k].runAt \in Occurrences(k)
                        /\ job'[k].status \in {"absent", "pending"} => job'[k].attempts = 0
                        /\ job'[k].status = "leased" => job'[k].runAt <= now /\ k \notin Invalid
    BY DEF RowInv, Occurrences
  <2>2. CASE k = j
    BY <1>6, <1>7, <2>2
  <2>3. CASE k # j
    <3>1. job'[k] = job[k]
      BY <1>7, <2>3
    <3>. QED  BY <3>1, Unpacked DEF RowInv
  <2>. QED  BY <2>2, <2>3
<1>12. BehindInv'
  <2>1. SUFFICES ASSUME NEW k \in Jobs, NEW s \in Timestamps, event'[k][s].status # "absent"
                 PROVE  s < job'[k].runAt \/ (job'[k].status = "fired" /\ s = job'[k].runAt)
    BY DEF BehindInv, Published
  <2>2. CASE k # j
    <3>1. job'[k] = job[k] /\ event'[k][s] = event[k][s]
      BY <1>4, <1>7, <2>2
    <3>. QED  BY <2>1, <3>1, Unpacked DEF BehindInv, Published
  <2>3. CASE k = j /\ s = r
    BY <1>6, <1>7, <1>8, <2>3
  <2>4. CASE k = j /\ s # r
    <3>1. event[j][s].status # "absent"
      BY <1>4, <2>1, <2>4
    <3>2. s < r
      BY <3>1, Unpacked DEF BehindInv, Published, r
    <3>3. s \in Nat
      BY Zone
    <3>4. s < q.runAt
      <4>1. r < q.runAt \/ q.runAt = r
        BY <1>6, <1>8
      <4>. QED  BY <1>1, <1>8, <3>2, <3>3, <4>1, SMT
    <3>. QED  BY <1>7, <2>4, <3>4
  <2>. QED  BY <2>2, <2>3, <2>4
<1>13. GivenUpUnpublished'
  <2>1. SUFFICES ASSUME NEW k \in Jobs, job'[k].status = "dead_letter"
                 PROVE  /\ k \in Invalid \/ job'[k].attempts = MaxAttempts
                        /\ event'[k][job'[k].runAt].status = "absent"
    BY DEF GivenUpUnpublished, Published
  <2>2. k # j
    BY <1>6, <1>7, <2>1
  <2>3. job'[k] = job[k] /\ job[k].runAt \in Timestamps
    BY <1>7, <2>2, Unpacked, RowFacts
  <2>4. event'[k][job[k].runAt] = event[k][job[k].runAt]
    BY <1>4, <2>2, <2>3
  <2>. QED  BY <2>1, <2>3, <2>4, Unpacked DEF GivenUpUnpublished, Published
<1>14. told[j] \notin Over
  BY Unpacked DEF ToldInv, Over
<1>15. CancelledNeverRuns' /\ ToldInv'
  <2>1. ASSUME NEW k \in Jobs, told[k] \in Over PROVE job'[k] = job[k] /\ \A s \in Timestamps : event'[k][s] = event[k][s]
    BY <1>4, <1>7, <1>14, <2>1
  <2>2. CancelledNeverRuns'
    <3>1. SUFFICES ASSUME NEW k \in Jobs, told[k] \in Over PROVE \A s \in Timestamps : event'[k][s].status # "active"
      BY DEF CancelledNeverRuns, HasActiveEvent, Over
    <3>2. \A s \in Timestamps : event[k][s].status # "active"
      BY <3>1, Unpacked DEF CancelledNeverRuns, HasActiveEvent, Over
    <3>. QED  BY <2>1, <3>1, <3>2
  <2>3. ToldInv'
    <3>1. SUFFICES ASSUME NEW k \in Jobs, told[k] \in Over PROVE job'[k].status \in {"cancelled", "fired", "dead_letter"}
      BY DEF ToldInv, Over
    <3>2. job[k].status \in {"cancelled", "fired", "dead_letter"}
      BY <3>1, Unpacked DEF ToldInv, Over
    <3>. QED  BY <2>1, <3>1, <3>2
  <2>. QED  BY <2>2, <2>3
<1>16. NoOccurrenceLost'
  <2>1. SUFFICES ASSUME NEW k \in Jobs, NEW t \in Occurrences(k)
                 PROVE  \/ t >= job'[k].runAt /\ job'[k].status # "fired"
                        \/ event'[k][t].status # "absent"
                        \/ \E u \in 0 .. t - 1 : event'[k][u].status # "absent" /\ t <= event'[k][u].created
    BY DEF NoOccurrenceLost, Published, Occurrences
  <2>2. t \in Timestamps /\ t \in Nat /\ \A u \in 0 .. t - 1 : u \in Timestamps
    <3>1. t \in Timestamps
      BY CronAssumption DEF Occurrences
    <3>. QED  BY <3>1, CronAssumption, SMT DEF Timestamps
  <2>3. \/ t >= job[k].runAt /\ job[k].status # "fired"
        \/ event[k][t].status # "absent"
        \/ \E u \in 0 .. t - 1 : event[k][u].status # "absent" /\ t <= event[k][u].created
    BY Unpacked DEF NoOccurrenceLost, Published
  <2>4. \A u \in Timestamps : event[k][u].status # "absent" => event'[k][u] = event[k][u]
    BY <1>2, <1>4 DEF r
  <2>5. CASE event[k][t].status # "absent"
    BY <2>2, <2>4, <2>5
  <2>6. CASE \E u \in 0 .. t - 1 : event[k][u].status # "absent" /\ t <= event[k][u].created
    BY <2>2, <2>4, <2>6
  <2>7. CASE k # j /\ t >= job[k].runAt /\ job[k].status # "fired"
    BY <1>7, <2>7
  <2>8. CASE k = j /\ t >= job[k].runAt
    <3>1. event'[j][r] = e
      BY <1>1, <1>4
    <3>2. CASE t = r
      BY <1>3, <2>8, <3>1, <3>2
    <3>3. CASE t # r /\ t <= now
      <4>1. r \in 0 .. t - 1
        BY <1>1, <2>2, <2>8, <3>3, SMT DEF r
      <4>2. event'[k][r].status # "absent" /\ t <= event'[k][r].created
        BY <1>3, <2>8, <3>1, <3>3
      <4>. QED  BY <4>1, <4>2
    <3>4. CASE ~(t <= now)
      <4>1. now < t
        BY <1>1, <2>2, <3>4, SMT
      <4>2. q.status = "pending" /\ q.runAt <= t
        BY <1>6, <2>8, <3>4, <4>1
      <4>3. t >= q.runAt
        BY <1>8, <2>2, <4>2, SMT
      <4>. QED  BY <1>7, <2>8, <4>2, <4>3
    <3>. QED  BY <3>2, <3>3, <3>4
  <2>. QED  BY <2>3, <2>5, <2>6, <2>7, <2>8
<1>17. job'[j].status = "pending" => job'[j].runAt > job[j].runAt
  <2>1. q.status = "pending" => q.runAt > r
    BY <1>1, <1>8, SMT
  <2>. QED  BY <1>7, <2>1 DEF r
<1>. QED  BY <1>9, <1>10, <1>11, <1>12, <1>13, <1>15, <1>16, <1>17 DEF IInv, JobsConsistent

LEMMA DispatchInv ==
    ASSUME Increasing, IInv, NEW w \in Workers, DispatchDueEvent(w)
    PROVE  /\ IInv'
           /\ \A j \in Jobs : job[j].status = "leased" /\ job'[j].status = "pending" =>
                job'[j].runAt > job[j].runAt
<1>. DEFINE x == Head(batch[w])
<1>1. /\ batch[w] # <<>>
      /\ IF HoldsLease(x)
         THEN event' = Enqueue(x.job) /\ job' = [job EXCEPT ![x.job] = Advanced(x.job)]
         ELSE event' = event /\ job' = job
      /\ batch' = [batch EXCEPT ![w] = Tail(@)]
      /\ told' = told /\ now' = now /\ faults' = faults
  BY DEF DispatchDueEvent
<1>2. x.job \in Jobs
  <2>1. batch[w] \in Seq(Item)
    BY Unpacked
  <2>2. x \in Item
    BY <1>1, <2>1, SMT
  <2>. QED  BY <2>2 DEF Item
<1>. HIDE DEF x
<1>3. BatchInv'
  BY <1>1, Unpacked, TailFacts
<1>4. CASE ~HoldsLease(x)
  <2>1. event' = event /\ job' = job
    BY <1>1, <1>4
  <2>2. faults' \in 0 .. MaxFaults
    BY <1>1, Unpacked
  <2>3. IInv'
    BY <1>1, <1>3, <2>1, <2>2, QuietInv
  <2>. QED  BY <2>1, <2>3
<1>5. CASE HoldsLease(x)
  <2>1. job[x.job].status = "leased"
    BY <1>5 DEF HoldsLease
  <2>2. IInv' /\ (job'[x.job].status = "pending" => job'[x.job].runAt > job[x.job].runAt)
    BY <1>1, <1>2, <1>3, <1>5, <2>1, PublishInv
  <2>3. \A j \in Jobs : j # x.job => job'[j] = job[j]
    BY <1>1, <1>5, Unpacked
  <2>. QED  BY <2>2, <2>3
<1>. QED  BY <1>4, <1>5

LEMMA DropInv ==
    ASSUME IInv, NEW w \in Workers, PassOver(w) \/ Stop(w)
    PROVE  IInv' /\ job' = job
<1>1. /\ batch[w] # <<>> /\ faults < MaxFaults /\ faults' = faults + 1
      /\ job' = job /\ event' = event /\ told' = told /\ now' = now
      /\ \/ batch' = [batch EXCEPT ![w] = Tail(@)]
         \/ batch' = [batch EXCEPT ![w] = <<>>]
  BY DEF PassOver, Stop
<1>2. faults' \in 0 .. MaxFaults
  <2>1. faults \in 0 .. MaxFaults
    BY Unpacked
  <2>. QED  BY <1>1, <2>1, Limits, SMT
<1>3. BatchInv'
  <2>1. CASE batch' = [batch EXCEPT ![w] = Tail(@)]
    BY <1>1, <2>1, Unpacked, TailFacts
  <2>2. CASE batch' = [batch EXCEPT ![w] = <<>>]
    <3>1. <<>> \in Seq(Item) /\ \A m \in DOMAIN <<>> : FALSE
      BY SMT
    <3>. QED  BY ZenonT(40), <2>2, <3>1, Unpacked DEF BatchInv
  <2>. QED  BY <1>1, <2>1, <2>2
<1>. QED  BY <1>1, <1>2, <1>3, QuietInv

LEMMA NextInv ==
    ASSUME Increasing, IInv, [Next]_vars PROVE IInv'
<1>1. CASE \E j \in Jobs : InsertJob(j) \/ CancelScheduledJob(j)
  BY <1>1, InsertInv, CancelInv
<1>2. CASE \E w \in Workers : Work(w)
  BY <1>2, ClaimInv, RenewInv, DispatchInv, DropInv DEF Work
<1>3. CASE \E j \in Jobs, t \in Timestamps : Settle(j, t)
  BY <1>3, SettleInv
<1>4. CASE Tick
  BY <1>4, TickInv
<1>5. CASE UNCHANGED vars
  <2>1. /\ job' = job /\ event' = event /\ batch' = batch /\ told' = told /\ now' = now
        /\ faults' = faults
    BY <1>5 DEF vars
  <2>2. BatchInv' /\ faults' \in 0 .. MaxFaults
    BY <2>1, Unpacked, SameBatches
  <2>. QED  BY <2>1, <2>2, QuietInv
<1>. QED  BY <1>1, <1>2, <1>3, <1>4, <1>5 DEF Next

LEMMA Inductive ==
    ASSUME Increasing PROVE Spec => []IInv
<1>1. Init => IInv
  BY InitInv
<1>2. IInv /\ [Next]_vars => IInv'
  BY NextInv
<1>. QED  BY <1>1, <1>2, PTL DEF Spec

----------------------------------------------------------------------------
\* The theorems.

\* In a zone whose clocks never go back: an event is published only for an occurrence of
\* its job and not before it is due, a schedule is given up only for an occurrence that
\* was claimed max_attempts times and never published, and once a conversation was told
\* that its job is cancelled or over no event of it waits or runs, whatever a worker that
\* had leased the job does later (dispatch_due_event, claim_due_jobs,
\* cancel_scheduled_job).
THEOREM JobsAgree ==
    ASSUME Increasing PROVE Spec => []JobsConsistent
<1>1. IInv => JobsConsistent
  BY DEF IInv
<1>. QED  BY Inductive, <1>1, PTL

\* In such a zone the schedule never moves past an occurrence that was neither published
\* nor already due when an earlier, late one was: advancing run_at from the time of
\* firing loses nothing, however workers stop, lose leases and take over.
THEOREM NothingIsLost ==
    ASSUME Increasing PROVE Spec => []NoOccurrenceLost
<1>1. IInv => NoOccurrenceLost
  BY DEF IInv
<1>. QED  BY Inductive, <1>1, PTL

\* In such a zone a dispatch moves the run_at of a recurring job forward: only
\* dispatch_due_event makes a leased row pending.
THEOREM DispatchAdvances ==
    ASSUME Increasing PROVE Spec => ScheduleAdvances
<1>1. ASSUME IInv, Next, NEW j \in Jobs, job[j].status = "leased", job'[j].status = "pending"
      PROVE  job'[j].runAt > job[j].runAt
  <2>1. job' # job /\ job[j] \in JobRow
    BY <1>1, Unpacked
  <2>2. ASSUME NEW k \in Jobs PROVE ~InsertJob(k) /\ ~CancelScheduledJob(k)
    <3>1. ~InsertJob(k)
      BY <1>1, Unpacked DEF InsertJob
    <3>2. ASSUME CancelScheduledJob(k) PROVE FALSE
      <4>1. job'[j] = job[j] \/ job'[j] = Freed(job[j], "cancelled")
        BY <1>1, <3>2, Unpacked DEF CancelScheduledJob
      <4>2. Freed(job[j], "cancelled").status = "cancelled"
        BY <2>1, FreedFacts DEF JobStatus
      <4>. QED  BY <1>1, <4>1, <4>2
    <3>. QED  BY <3>1, <3>2
  <2>3. ASSUME NEW w \in Workers PROVE ~Claim(w) /\ ~RenewLease(w) /\ ~PassOver(w) /\ ~Stop(w)
    <3>1. ASSUME Claim(w) PROVE FALSE
      <4>1. /\ Freed(job[j], "dead_letter").status = "dead_letter"
            /\ Leased(job[j], FreshToken(j)).status = "leased"
        BY <2>1 DEF Freed, Leased, JobRow
      <4>. DEFINE p == Freed(job[j], "dead_letter")
                  q == Leased(job[j], FreshToken(j))
      <4>2. PICK taken : job'[j] =
              CASE j \in Scope[w] /\ Exhausted(job[j]) -> p
                [] j \in taken \cap Invalid -> p
                [] j \in taken \ Invalid -> q
                [] OTHER -> job[j]
        BY <3>1 DEF Claim
      <4>. HIDE DEF p, q
      <4>3. job'[j] \in {p, q, job[j]}
        BY <4>2
      <4>. QED  BY <1>1, <4>1, <4>3 DEF p, q
    <3>2. ASSUME RenewLease(w) PROVE FALSE
      <4>1. job'[j] = job[j] \/ job'[j] = [job[j] EXCEPT !.lease = LeaseSeconds]
        BY <3>2, Unpacked, <1>1 DEF RenewLease
      <4>. QED  BY <1>1, <2>1, <4>1 DEF JobRow
    <3>3. ~PassOver(w) /\ ~Stop(w)
      BY <2>1 DEF PassOver, Stop
    <3>. QED  BY <3>1, <3>2, <3>3
  <2>4. \A k \in Jobs, t \in Timestamps : ~Settle(k, t)
    BY <2>1 DEF Settle
  <2>5. ASSUME Tick PROVE FALSE
    <3>1. \E l : job'[j] = [job[j] EXCEPT !.lease = l]
      BY <2>5 DEF Tick
    <3>. QED  BY <1>1, <2>1, <3>1 DEF JobRow
  <2>6. ASSUME NEW w \in Workers, DispatchDueEvent(w) PROVE job'[j].runAt > job[j].runAt
    BY <1>1, <2>6, DispatchInv
  <2>. QED  BY <1>1, <2>2, <2>3, <2>4, <2>5, <2>6 DEF Next, Work
<1>2. IInv /\ [Next]_vars =>
        [\A j \in Jobs : job[j].status = "leased" /\ job'[j].status = "pending" =>
             job'[j].runAt > job[j].runAt]_vars
  BY <1>1
<1>. QED  BY Inductive, <1>2, PTL DEF Spec, ScheduleAdvances

============================================================================
